---- MODULE Spec2Model ----
(***************************************************************************)
(* Model of the snapshot locator, loader, aggregation, diff, appearance    *)
(* scan and one-date report code of partner_account_analyzer/server.py     *)
(* and of the ticket loader and the per-payer and per-category ticket      *)
(* tools of partner_case_analyzer/server.py.                               *)
(*                                                                         *)
(* Python strings are modelled as sequences of one-character strings, so   *)
(* that slicing, strip(), upper(), lower() and re.match are computed the   *)
(* way the code computes them.                                             *)
(***************************************************************************)
EXTENDS Integers, Sequences, FiniteSets, TLC

VARIABLES
    folder,     \* the customer's data directory: [exists, files: filename -> rows]
    case_dir,   \* the ticket data directory:     [exists, files: filename -> rows]
    call,       \* the last completed call: its name, arguments and result
    history     \* the loads answered so far, kept while a session is observed

vars == <<folder, case_dir, call, history>>

----------------------------------------------------------------------------
(* Bounds of the model *)

MaxFiles == 2        \* files in a folder of the locator specification
MaxRecords == 2      \* rows in a generic account snapshot
MaxCases == 3        \* rows in a generic ticket file
MaxValues == 3       \* length of a list of linked-account counts
MaxCount == 3        \* largest linked-account count in such a list

----------------------------------------------------------------------------
(* Characters and strings *)

DigitChars == <<"0", "1", "2", "3", "4", "5", "6", "7", "8", "9">>

UpperChars == <<"A", "B", "C", "D", "E", "F", "G", "H", "I", "J", "K", "L", "M",
                "N", "O", "P", "Q", "R", "S", "T", "U", "V", "W", "X", "Y", "Z">>

LowerChars == <<"a", "b", "c", "d", "e", "f", "g", "h", "i", "j", "k", "l", "m",
                "n", "o", "p", "q", "r", "s", "t", "u", "v", "w", "x", "y", "z">>

Range(s) == {s[i] : i \in DOMAIN s}

DigitSet == Range(DigitChars)

IsDigit(c) == c \in DigitSet

\* str.upper() and str.lower(), character by character
UpperOf == [i \in DOMAIN LowerChars |-> UpperChars[i]]

UpperTable == {<<LowerChars[i], UpperOf[i]>> : i \in DOMAIN LowerChars}

UpperMap == [c \in Range(LowerChars) |-> (CHOOSE p \in UpperTable : p[1] = c)[2]]

LowerMap == [c \in Range(UpperChars) |-> (CHOOSE p \in UpperTable : p[2] = c)[1]]

UpperChar(c) == IF c \in DOMAIN UpperMap THEN UpperMap[c] ELSE c

LowerChar(c) == IF c \in DOMAIN LowerMap THEN LowerMap[c] ELSE c

Upper(s) == [i \in DOMAIN s |-> UpperChar(s[i])]

Lower(s) == [i \in DOMAIN s |-> LowerChar(s[i])]

\* s[k:] of Python, k >= 0
SliceFrom(s, k) == SubSeq(s, k + 1, Len(s))

StartsWith(s, p) == Len(s) >= Len(p) /\ SubSeq(s, 1, Len(p)) = p

RECURSIVE LStripChars(_, _)
LStripChars(s, chars) ==
    IF s # <<>> /\ Head(s) \in chars THEN LStripChars(Tail(s), chars) ELSE s

RECURSIVE RStripChars(_, _)
RStripChars(s, chars) ==
    IF s # <<>> /\ s[Len(s)] \in chars THEN RStripChars(SubSeq(s, 1, Len(s) - 1), chars)
    ELSE s

\* str.strip(chars): every leading and every trailing character of the set is removed
StripChars(s, chars) == RStripChars(LStripChars(s, chars), chars)

Whitespace == {" ", "\t", "\n", "\r"}

Strip(s) == StripChars(s, Whitespace)

\* lexicographic order of Python strings, on strings of digits
OrdMap == [c \in DigitSet |-> CHOOSE i \in DOMAIN DigitChars : DigitChars[i] = c]

Ord(c) == OrdMap[c]

RECURSIVE StrLess(_, _)
StrLess(a, b) ==
    IF a = <<>> THEN b # <<>>
    ELSE IF b = <<>> THEN FALSE
    ELSE IF Head(a) = Head(b) THEN StrLess(Tail(a), Tail(b))
    ELSE Ord(Head(a)) < Ord(Head(b))

\* sorted(S) of a set of distinct strings
RECURSIVE SortedSeq(_)
SortedSeq(S) ==
    IF S = {} THEN <<>>
    ELSE LET m == CHOOSE x \in S : \A y \in S \ {x} : StrLess(x, y)
         IN  <<m>> \o SortedSeq(S \ {m})

RECURSIVE Concat(_)
Concat(ss) == IF ss = <<>> THEN <<>> ELSE Head(ss) \o Concat(Tail(ss))

RECURSIVE SelectFirst(_, _)
\* index of the first element of s in set T, 0 when there is none
SelectFirst(s, T) ==
    IF s = <<>> THEN 0
    ELSE IF Head(s) \in T THEN 1
    ELSE LET r == SelectFirst(Tail(s), T) IN IF r = 0 THEN 0 ELSE r + 1

----------------------------------------------------------------------------
(* Date tokens *)

ShortLen == 4
LongLen == 8

DefaultYear == <<"2", "0", "2", "5">>

normalize_date_format(date_str) ==
    IF Len(date_str) = ShortLen THEN date_str
    ELSE IF Len(date_str) = LongLen THEN SliceFrom(date_str, 4)
    ELSE date_str

ExpandLongFirst(date_str) ==
    IF Len(date_str) = ShortLen THEN <<DefaultYear \o date_str, date_str>>
    ELSE IF Len(date_str) = LongLen THEN <<date_str, SliceFrom(date_str, 4)>>
    ELSE <<date_str>>

expand_date_format(date_str) ==
    IF Len(date_str) = ShortLen THEN <<date_str, DefaultYear \o date_str>>
    ELSE IF Len(date_str) = LongLen THEN <<SliceFrom(date_str, 4), date_str>>
    ELSE <<date_str>>

----------------------------------------------------------------------------
(* Raw CSV rows and AccountRecord *)

K_AccountName == "Account Name"
K_AccountID == "Account ID"
K_SupportLevel == "Support Level"
K_Status == "Status"
K_LinkedAccounts == "Linked Accounts"
K_AccountType == "Account Type"
K_PayerID == "Payer ID"
K_Tags == "Tags"

\* dict.get(key, "")
RowGet(row, key) == IF key \in DOMAIN row THEN row[key] ELSE <<>>

Quote == {"\""}

AccountRecord(row) ==
    [account_name    |-> StripChars(RowGet(row, K_AccountName), Quote),
     account_id      |-> StripChars(RowGet(row, K_AccountID), Quote),
     support_level   |-> StripChars(RowGet(row, K_SupportLevel), Quote),
     status          |-> StripChars(RowGet(row, K_Status), Quote),
     linked_accounts |-> StripChars(RowGet(row, K_LinkedAccounts), Quote),
     account_type    |-> StripChars(RowGet(row, K_AccountType), Quote),
     payer_id        |-> StripChars(RowGet(row, K_PayerID), Quote),
     tags            |-> StripChars(RowGet(row, K_Tags), Quote)]

S_ENTERPRISE == <<"E", "N", "T", "E", "R", "P", "R", "I", "S", "E">>
S_BUSINESS == <<"B", "U", "S", "I", "N", "E", "S", "S">>
S_DEVELOPER == <<"D", "E", "V", "E", "L", "O", "P", "E", "R">>
S_BASIC == <<"B", "A", "S", "I", "C">>
S_PAYER_ACCOUNT == <<"P", "A", "Y", "E", "R", "_", "A", "C", "C", "O", "U", "N", "T">>
S_LINKED_ACCOUNT == <<"L", "I", "N", "K", "E", "D", "_", "A", "C", "C", "O", "U", "N", "T">>

is_enterprise(account) == Upper(account.support_level) = S_ENTERPRISE

is_business(account) == Upper(account.support_level) = S_BUSINESS

is_developer(account) == Upper(account.support_level) = S_DEVELOPER

is_basic(account) == Upper(account.support_level) = S_BASIC

is_payer(account) == account.account_type = S_PAYER_ACCOUNT

is_linked(account) == account.account_type = S_LINKED_ACCOUNT

----------------------------------------------------------------------------
(* Snapshot locator and loader *)

customer == <<"c", "1">>

S_accounts == <<"a", "c", "c", "o", "u", "n", "t", "s", "-">>
S_CMC == <<"C", "M", "C", "-">>
S_dash == <<"-">>
S_csv == <<".", "c", "s", "v">>

NoDir == [exists |-> FALSE, files |-> <<>>]

Present(dir) == IF dir.exists THEN DOMAIN dir.files ELSE {}

\* the compiled patterns of get_available_dates, in list order:
\* a literal prefix, then \d{digits}, then \.csv
patterns ==
    <<[prefix |-> customer \o S_dash \o S_CMC \o S_accounts, digits |-> ShortLen],
      [prefix |-> customer \o S_dash \o S_CMC \o S_accounts, digits |-> LongLen],
      [prefix |-> customer \o S_dash \o S_accounts, digits |-> ShortLen],
      [prefix |-> customer \o S_dash \o S_accounts, digits |-> LongLen],
      [prefix |-> S_accounts, digits |-> ShortLen],
      [prefix |-> S_accounts, digits |-> LongLen],
      [prefix |-> S_CMC \o S_accounts, digits |-> ShortLen],
      [prefix |-> S_CMC \o S_accounts, digits |-> LongLen]>>

\* pattern.match(filename): anchored at the start of the name only
PatternMatches(pattern, filename) ==
    LET p == Len(pattern.prefix)
        n == pattern.digits
    IN  /\ StartsWith(filename, pattern.prefix)
        /\ Len(filename) >= p + n + Len(S_csv)
        /\ \A i \in (p + 1)..(p + n) : IsDigit(filename[i])
        /\ SubSeq(filename, p + n + 1, p + n + Len(S_csv)) = S_csv

\* match.group(1)
PatternGroup(pattern, filename) ==
    SubSeq(filename, Len(pattern.prefix) + 1, Len(pattern.prefix) + pattern.digits)

\* the pattern of the inner loop's first match (the loop breaks there), 0 when none
FirstPattern(filename) ==
    LET hits == {i \in DOMAIN patterns : PatternMatches(patterns[i], filename)}
    IN  IF hits = {} THEN 0 ELSE CHOOSE i \in hits : \A j \in hits : i <= j

\* a listing that keeps the date component as the file name has it
AvailableDatesAsWritten(dir) ==
    IF ~dir.exists THEN <<>>
    ELSE SortedSeq({PatternGroup(patterns[FirstPattern(f)], f) :
                       f \in {g \in Present(dir) : FirstPattern(g) # 0}})

get_available_dates(dir) ==
    IF ~dir.exists THEN <<>>
    ELSE SortedSeq({normalize_date_format(PatternGroup(patterns[FirstPattern(f)], f)) :
                       f \in {g \in Present(dir) : FirstPattern(g) # 0}})

FilenamesFor(date_fmt) ==
    <<customer \o S_dash \o S_CMC \o S_accounts \o date_fmt \o S_csv,
      customer \o S_dash \o S_accounts \o date_fmt \o S_csv,
      S_accounts \o date_fmt \o S_csv,
      S_CMC \o S_accounts \o date_fmt \o S_csv>>

possible_filenames(date) ==
    LET date_formats == expand_date_format(date)
    IN  Concat([i \in DOMAIN date_formats |-> FilenamesFor(date_formats[i])])

\* the file load_accounts_data opens: the first attempted name that exists, <<>> when none
LocateFile(dir, date) ==
    LET names == possible_filenames(date)
        i == SelectFirst(names, Present(dir))
    IN  IF i = 0 THEN <<>> ELSE names[i]

load_accounts_data(dir, date) ==
    LET filepath == LocateFile(dir, date)
    IN  IF filepath = <<>>
        THEN [status |-> "FileNotFoundError", date |-> date,
              possible_filenames |-> possible_filenames(date)]
        ELSE [status |-> "ok", filepath |-> filepath,
              accounts |-> [k \in DOMAIN dir.files[filepath] |->
                               AccountRecord(dir.files[filepath][k])]]

----------------------------------------------------------------------------
(* Aggregation and diff engine *)

load_enterprise_accounts_data(dir, date) ==
    LET all_accounts == load_accounts_data(dir, date)
    IN  IF all_accounts.status # "ok" THEN all_accounts
        ELSE [all_accounts EXCEPT !.accounts = SelectSeq(@, is_enterprise)]

\* the defaultdict payer_to_linked: payer_id -> the linked records naming it, in order
PayerToLinked(linked_accounts) ==
    [p \in {linked_accounts[i].payer_id : i \in DOMAIN linked_accounts} |->
        SelectSeq(linked_accounts, LAMBDA a : a.payer_id = p)]

AnalyzeWithoutTypeSplit(accounts) ==
    LET enterprise_accounts == SelectSeq(accounts, is_enterprise)
    IN  [payer_accounts  |-> enterprise_accounts,
         linked_accounts |-> enterprise_accounts,
         payer_to_linked |-> PayerToLinked(enterprise_accounts),
         total_payers    |-> Len(enterprise_accounts),
         total_linked    |-> Len(enterprise_accounts),
         total_accounts  |-> Len(enterprise_accounts)]

\* an aggregate that keeps a linked record only when a payer of the list has the id
\* it refers to
AnalyzeDroppingOrphans(accounts) ==
    LET enterprise_accounts == SelectSeq(accounts, is_enterprise)
        payer_accounts == SelectSeq(enterprise_accounts, is_payer)
        linked_accounts ==
            SelectSeq(enterprise_accounts,
                      LAMBDA a : /\ ~is_payer(a) /\ is_linked(a)
                                 /\ \E i \in DOMAIN payer_accounts :
                                        payer_accounts[i].account_id = a.payer_id)
    IN  [payer_accounts  |-> payer_accounts,
         linked_accounts |-> linked_accounts,
         payer_to_linked |-> PayerToLinked(linked_accounts),
         total_payers    |-> Len(payer_accounts),
         total_linked    |-> Len(linked_accounts),
         total_accounts  |-> Len(enterprise_accounts)]

analyze_enterprise_accounts(accounts) ==
    LET enterprise_accounts == SelectSeq(accounts, is_enterprise)
        payer_accounts == SelectSeq(enterprise_accounts, is_payer)
        linked_accounts ==
            SelectSeq(enterprise_accounts, LAMBDA a : ~is_payer(a) /\ is_linked(a))
    IN  [payer_accounts  |-> payer_accounts,
         linked_accounts |-> linked_accounts,
         payer_to_linked |-> PayerToLinked(linked_accounts),
         total_payers    |-> Len(payer_accounts),
         total_linked    |-> Len(linked_accounts),
         total_accounts  |-> Len(enterprise_accounts)]

\* a dictionary that keeps the first record of an id
ByIdFirstWins(accounts) ==
    [k \in {accounts[i].account_id : i \in DOMAIN accounts} |->
        accounts[CHOOSE i \in DOMAIN accounts :
                    /\ accounts[i].account_id = k
                    /\ \A j \in DOMAIN accounts : accounts[j].account_id = k => i <= j]]

\* {acc.account_id: acc for acc in accounts}: a later record replaces an earlier one
ById(accounts) ==
    [k \in {accounts[i].account_id : i \in DOMAIN accounts} |->
        accounts[CHOOSE i \in DOMAIN accounts :
                    /\ accounts[i].account_id = k
                    /\ \A j \in DOMAIN accounts : accounts[j].account_id = k => j <= i]]

\* a difference that also takes a key whose record names another payer
KeysAddedOrMoved(a, b) ==
    (DOMAIN b \ DOMAIN a) \cup
        {k \in DOMAIN a \cap DOMAIN b : a[k].payer_id # b[k].payer_id}

KeysAddedWithoutDifference(a, b) == DOMAIN b

\* set(b.keys()) - set(a.keys())
KeysAdded(a, b) == DOMAIN b \ DOMAIN a

KeysCommonAsUnion(a, b) == DOMAIN a \cup DOMAIN b

\* set(a.keys()) & set(b.keys())
KeysCommon(a, b) == DOMAIN a \cap DOMAIN b

HasType(account, account_type) ==
    \/ account_type = "PAYER" /\ is_payer(account)
    \/ account_type = "LINKED" /\ is_linked(account)

\* whether the snapshot of an available date holds the account; a load that raises
\* is skipped
AppearsAt(dir, date, account_id, account_type) ==
    LET loaded == load_accounts_data(dir, date)
    IN  /\ loaded.status = "ok"
        /\ \E i \in DOMAIN loaded.accounts :
               /\ loaded.accounts[i].account_id = account_id
               /\ HasType(loaded.accounts[i], account_type)

NotSeen == [found |-> FALSE]

\* a scan that looks at the account id only
FirstAppearanceOfAnyType(dir, account_id, account_type) ==
    LET dates == get_available_dates(dir)
        hits == {i \in DOMAIN dates :
                    \/ AppearsAt(dir, dates[i], account_id, "PAYER")
                    \/ AppearsAt(dir, dates[i], account_id, "LINKED")}
    IN  IF hits = {} THEN NotSeen
        ELSE [found |-> TRUE, date |-> dates[CHOOSE i \in hits : \A j \in hits : i <= j]]

\* a scan for the last appearance that walks the dates oldest first
LastAppearanceOldestFirst(dir, account_id, account_type) ==
    LET dates == get_available_dates(dir)
        hits == {i \in DOMAIN dates : AppearsAt(dir, dates[i], account_id, account_type)}
    IN  IF hits = {} THEN NotSeen
        ELSE [found |-> TRUE, date |-> dates[CHOOSE i \in hits : \A j \in hits : i <= j]]

\* a scan for the last appearance that leaves out the newest date
LastAppearanceBeforeTheNewest(dir, account_id, account_type) ==
    LET dates == get_available_dates(dir)
        hits == {i \in DOMAIN dates :
                    /\ i < Len(dates)
                    /\ AppearsAt(dir, dates[i], account_id, account_type)}
    IN  IF hits = {} THEN NotSeen
        ELSE [found |-> TRUE, date |-> dates[CHOOSE i \in hits : \A j \in hits : i >= j]]

find_account_first_appearance(dir, account_id, account_type) ==
    LET dates == get_available_dates(dir)
        hits == {i \in DOMAIN dates : AppearsAt(dir, dates[i], account_id, account_type)}
    IN  IF hits = {} THEN NotSeen
        ELSE [found |-> TRUE, date |-> dates[CHOOSE i \in hits : \A j \in hits : i <= j]]

find_account_last_appearance(dir, account_id, account_type) ==
    LET dates == get_available_dates(dir)
        hits == {i \in DOMAIN dates : AppearsAt(dir, dates[i], account_id, account_type)}
    IN  IF hits = {} THEN NotSeen
        ELSE [found |-> TRUE, date |-> dates[CHOOSE i \in hits : \A j \in hits : i >= j]]

get_payer_name_by_id(dir, payer_id, date) ==
    LET loaded == load_accounts_data(dir, date)
        hits == IF loaded.status # "ok" THEN {}
                ELSE {i \in DOMAIN loaded.accounts :
                         /\ loaded.accounts[i].account_id = payer_id
                         /\ is_payer(loaded.accounts[i])}
    IN  IF hits = {} THEN [known |-> FALSE, payer_id |-> payer_id]
        ELSE [known |-> TRUE,
              name |-> loaded.accounts[CHOOSE i \in hits : \A j \in hits : i <= j].account_name]

\* a grouping that appends every new id to every payer's bucket
NewEntriesUnderEveryPayer(dir, ids, linked2, date2, payer_id) ==
    {[account    |-> linked2[id],
      payer_name |-> get_payer_name_by_id(dir, payer_id, date2),
      payer_id   |-> payer_id,
      first_seen |-> find_account_first_appearance(dir, id, "LINKED")] : id \in ids}

\* the entries appended to one payer's bucket for the ids of a set; the code walks a
\* Python set, whose order is not defined, so a bucket is modelled as a set
NewEntries(dir, ids, linked2, date2, payer_id) ==
    {[account    |-> linked2[id],
      payer_name |-> get_payer_name_by_id(dir, payer_id, date2),
      payer_id   |-> payer_id,
      first_seen |-> find_account_first_appearance(dir, id, "LINKED")] :
        id \in {x \in ids : linked2[x].payer_id = payer_id}}

RemovedEntries(dir, ids, linked1, date1, payer_id) ==
    {[account    |-> linked1[id],
      payer_name |-> get_payer_name_by_id(dir, payer_id, date1),
      payer_id   |-> payer_id,
      last_seen  |-> find_account_last_appearance(dir, id, "LINKED")] :
        id \in {x \in ids : linked1[x].payer_id = payer_id}}

analyze_linked_account_changes(dir, date1, date2) ==
    LET accounts1 == load_enterprise_accounts_data(dir, date1)
        accounts2 == load_enterprise_accounts_data(dir, date2)
    IN  IF accounts1.status # "ok" THEN [error |-> accounts1]
        ELSE IF accounts2.status # "ok" THEN [error |-> accounts2]
        ELSE
        LET analysis1 == analyze_enterprise_accounts(accounts1.accounts)
            analysis2 == analyze_enterprise_accounts(accounts2.accounts)
            linked1 == ById(analysis1.linked_accounts)
            linked2 == ById(analysis2.linked_accounts)
            new_linked_ids == KeysAdded(linked1, linked2)
            removed_linked_ids == KeysAdded(linked2, linked1)
            payers == {linked2[id].payer_id : id \in new_linked_ids} \cup
                      {linked1[id].payer_id : id \in removed_linked_ids}
        IN  [payer_changes |->
                [p \in payers |->
                    [new     |-> NewEntries(dir, new_linked_ids, linked2, date2, p),
                     removed |-> RemovedEntries(dir, removed_linked_ids, linked1, date1, p)]]]

\* a payer diff that takes a second snapshot it cannot load for an empty one
ComparePayersMissingAsEmpty(dir, date1, date2) ==
    LET accounts1 == load_enterprise_accounts_data(dir, date1)
        accounts2 == load_enterprise_accounts_data(dir, date2)
    IN  IF accounts1.status # "ok" THEN [status |-> "error", error |-> accounts1]
        ELSE
        LET analysis1 == analyze_enterprise_accounts(accounts1.accounts)
            analysis2 == analyze_enterprise_accounts(
                             IF accounts2.status = "ok" THEN accounts2.accounts ELSE <<>>)
            payers1 == ById(analysis1.payer_accounts)
            payers2 == ById(analysis2.payer_accounts)
        IN  [status         |-> "ok",
             total_payers1  |-> analysis1.total_payers,
             total_linked1  |-> analysis1.total_linked,
             total_payers2  |-> analysis2.total_payers,
             total_linked2  |-> analysis2.total_linked,
             new_payers     |-> KeysAdded(payers1, payers2),
             removed_payers |-> KeysAdded(payers2, payers1),
             common_payers  |-> KeysCommon(payers1, payers2),
             linked_changes |-> analyze_linked_account_changes(dir, date1, date2)]

compare_payer_changes(dir, date1, date2) ==
    LET accounts1 == load_enterprise_accounts_data(dir, date1)
        accounts2 == load_enterprise_accounts_data(dir, date2)
    IN  IF accounts1.status # "ok" THEN [status |-> "error", error |-> accounts1]
        ELSE IF accounts2.status # "ok" THEN [status |-> "error", error |-> accounts2]
        ELSE
        LET analysis1 == analyze_enterprise_accounts(accounts1.accounts)
            analysis2 == analyze_enterprise_accounts(accounts2.accounts)
            payers1 == ById(analysis1.payer_accounts)
            payers2 == ById(analysis2.payer_accounts)
            new_payers == KeysAdded(payers1, payers2)
            removed_payers == KeysAdded(payers2, payers1)
            common_payers == KeysCommon(payers1, payers2)
            LinkedCount(analysis, payer_id) ==
                IF payer_id \in DOMAIN analysis.payer_to_linked
                THEN Len(analysis.payer_to_linked[payer_id]) ELSE 0
        IN  [status         |-> "ok",
             total_payers1  |-> analysis1.total_payers,
             total_linked1  |-> analysis1.total_linked,
             total_payers2  |-> analysis2.total_payers,
             total_linked2  |-> analysis2.total_linked,
             new_payers     |-> new_payers,
             removed_payers |-> removed_payers,
             common_payers  |-> common_payers,
             new_details    |->
                 [id \in new_payers |->
                     [payer        |-> payers2[id],
                      linked_count |-> LinkedCount(analysis2, id),
                      first_seen   |-> find_account_first_appearance(dir, id, "PAYER")]],
             removed_details |->
                 [id \in removed_payers |->
                     [payer        |-> payers1[id],
                      linked_count |-> LinkedCount(analysis1, id),
                      last_seen    |-> find_account_last_appearance(dir, id, "PAYER")]],
             linked_changes |-> analyze_linked_account_changes(dir, date1, date2)]

\* a linked diff whose totals count the linked records instead of the distinct ids
DetailedChangesCountingRecords(dir, date1, date2) ==
    LET accounts1 == load_enterprise_accounts_data(dir, date1)
        accounts2 == load_enterprise_accounts_data(dir, date2)
    IN  IF accounts1.status # "ok" THEN [status |-> "error", error |-> accounts1]
        ELSE IF accounts2.status # "ok" THEN [status |-> "error", error |-> accounts2]
        ELSE
        LET analysis1 == analyze_enterprise_accounts(accounts1.accounts)
            analysis2 == analyze_enterprise_accounts(accounts2.accounts)
            linked1 == ById(analysis1.linked_accounts)
            linked2 == ById(analysis2.linked_accounts)
            new_linked_ids == KeysAdded(linked1, linked2)
            removed_linked_ids == KeysAdded(linked2, linked1)
            new_payers == {linked2[id].payer_id : id \in new_linked_ids}
            removed_payers == {linked1[id].payer_id : id \in removed_linked_ids}
        IN  [status             |-> "ok",
             new_linked_ids     |-> new_linked_ids,
             removed_linked_ids |-> removed_linked_ids,
             net_change         |-> Cardinality(new_linked_ids) - Cardinality(removed_linked_ids),
             new_by_payer       |->
                 [p \in new_payers |-> NewEntries(dir, new_linked_ids, linked2, date2, p)],
             removed_by_payer   |->
                 [p \in removed_payers |->
                     RemovedEntries(dir, removed_linked_ids, linked1, date1, p)],
             total_linked1      |-> analysis1.total_linked,
             total_linked2      |-> analysis2.total_linked,
             total_net_change   |-> analysis2.total_linked - analysis1.total_linked,
             affected_payers    |-> new_payers \cup removed_payers]

get_detailed_linked_changes(dir, date1, date2) ==
    LET accounts1 == load_enterprise_accounts_data(dir, date1)
        accounts2 == load_enterprise_accounts_data(dir, date2)
    IN  IF accounts1.status # "ok" THEN [status |-> "error", error |-> accounts1]
        ELSE IF accounts2.status # "ok" THEN [status |-> "error", error |-> accounts2]
        ELSE
        LET analysis1 == analyze_enterprise_accounts(accounts1.accounts)
            analysis2 == analyze_enterprise_accounts(accounts2.accounts)
            linked1 == ById(analysis1.linked_accounts)
            linked2 == ById(analysis2.linked_accounts)
            new_linked_ids == KeysAdded(linked1, linked2)
            removed_linked_ids == KeysAdded(linked2, linked1)
            new_payers == {linked2[id].payer_id : id \in new_linked_ids}
            removed_payers == {linked1[id].payer_id : id \in removed_linked_ids}
        IN  [status             |-> "ok",
             new_linked_ids     |-> new_linked_ids,
             removed_linked_ids |-> removed_linked_ids,
             net_change         |-> Cardinality(new_linked_ids) - Cardinality(removed_linked_ids),
             new_by_payer       |->
                 [p \in new_payers |-> NewEntries(dir, new_linked_ids, linked2, date2, p)],
             removed_by_payer   |->
                 [p \in removed_payers |->
                     RemovedEntries(dir, removed_linked_ids, linked1, date1, p)],
             total_linked1      |-> Cardinality(DOMAIN linked1),
             total_linked2      |-> Cardinality(DOMAIN linked2),
             total_net_change   |-> Cardinality(DOMAIN linked2) - Cardinality(DOMAIN linked1),
             affected_payers    |-> new_payers \cup removed_payers]

----------------------------------------------------------------------------
(* Aggregates over one list of records *)

\* a defaultdict(int) counter: value -> number of records having it
CountBy(accounts, Field(_)) ==
    [v \in {Field(accounts[i]) : i \in DOMAIN accounts} |->
        Cardinality({i \in DOMAIN accounts : Field(accounts[i]) = v})]

IsOtherLevel(a) ==
    ~is_enterprise(a) /\ ~is_business(a) /\ ~is_developer(a) /\ ~is_basic(a)

AnalyzeAllWithTwoIfs(accounts) ==
    LET payer_accounts == SelectSeq(accounts, is_payer)
        linked_accounts == SelectSeq(accounts, LAMBDA a : ~is_payer(a) /\ is_linked(a))
        enterprise_accounts == SelectSeq(accounts, is_enterprise)
        business_accounts == SelectSeq(accounts, is_business)
        developer_accounts == SelectSeq(accounts, is_developer)
        basic_accounts == SelectSeq(accounts, is_basic)
        other_accounts == SelectSeq(accounts, LAMBDA a : ~is_basic(a))
    IN  [all_accounts        |-> accounts,
         payer_accounts      |-> payer_accounts,
         linked_accounts     |-> linked_accounts,
         payer_to_linked     |-> PayerToLinked(linked_accounts),
         total_payers        |-> Len(payer_accounts),
         total_linked        |-> Len(linked_accounts),
         total_accounts      |-> Len(accounts),
         enterprise_accounts |-> enterprise_accounts,
         business_accounts   |-> business_accounts,
         developer_accounts  |-> developer_accounts,
         basic_accounts      |-> basic_accounts,
         other_accounts      |-> other_accounts,
         support_level_stats |-> CountBy(accounts, LAMBDA a : a.support_level),
         account_type_stats  |-> CountBy(accounts, LAMBDA a : a.account_type),
         status_stats        |-> CountBy(accounts, LAMBDA a : a.status),
         total_enterprise    |-> Len(enterprise_accounts),
         total_business      |-> Len(business_accounts),
         total_developer     |-> Len(developer_accounts),
         total_basic         |-> Len(basic_accounts),
         total_other         |-> Len(other_accounts)]

analyze_all_accounts(accounts) ==
    LET payer_accounts == SelectSeq(accounts, is_payer)
        linked_accounts == SelectSeq(accounts, LAMBDA a : ~is_payer(a) /\ is_linked(a))
        enterprise_accounts == SelectSeq(accounts, is_enterprise)
        business_accounts ==
            SelectSeq(accounts, LAMBDA a : ~is_enterprise(a) /\ is_business(a))
        developer_accounts ==
            SelectSeq(accounts,
                      LAMBDA a : ~is_enterprise(a) /\ ~is_business(a) /\ is_developer(a))
        basic_accounts ==
            SelectSeq(accounts,
                      LAMBDA a : /\ ~is_enterprise(a) /\ ~is_business(a)
                                 /\ ~is_developer(a) /\ is_basic(a))
        other_accounts == SelectSeq(accounts, IsOtherLevel)
    IN  [all_accounts        |-> accounts,
         payer_accounts      |-> payer_accounts,
         linked_accounts     |-> linked_accounts,
         payer_to_linked     |-> PayerToLinked(linked_accounts),
         total_payers        |-> Len(payer_accounts),
         total_linked        |-> Len(linked_accounts),
         total_accounts      |-> Len(accounts),
         enterprise_accounts |-> enterprise_accounts,
         business_accounts   |-> business_accounts,
         developer_accounts  |-> developer_accounts,
         basic_accounts      |-> basic_accounts,
         other_accounts      |-> other_accounts,
         support_level_stats |-> CountBy(accounts, LAMBDA a : a.support_level),
         account_type_stats  |-> CountBy(accounts, LAMBDA a : a.account_type),
         status_stats        |-> CountBy(accounts, LAMBDA a : a.status),
         total_enterprise    |-> Len(enterprise_accounts),
         total_business      |-> Len(business_accounts),
         total_developer     |-> Len(developer_accounts),
         total_basic         |-> Len(basic_accounts),
         total_other         |-> Len(other_accounts)]

\* the exception a division by zero raises, as the except clause of a tool sees it
ZeroDivisionError == [status |-> "ZeroDivisionError"]

\* a quotient of two counts as the report shows it, kept exact
Ratio(num, den) == [num |-> num, den |-> den]

\* a sort that puts an item before the items of equal count already placed
RECURSIVE InsertBeforeEqualCount(_, _)
InsertBeforeEqualCount(x, s) ==
    IF s = <<>> THEN <<x>>
    ELSE IF Head(s).linked_count > x.linked_count
    THEN <<Head(s)>> \o InsertBeforeEqualCount(x, Tail(s))
    ELSE <<x>> \o s

RECURSIVE SortTiesReversed(_)
SortTiesReversed(items) ==
    IF items = <<>> THEN <<>>
    ELSE InsertBeforeEqualCount(items[Len(items)],
                                SortTiesReversed(SubSeq(items, 1, Len(items) - 1)))

\* list.sort(key=linked_count, reverse=True): stable, so items of equal count keep the
\* order they had in the list
RECURSIVE InsertByLinkedCount(_, _)
InsertByLinkedCount(x, s) ==
    IF s = <<>> THEN <<x>>
    ELSE IF Head(s).linked_count >= x.linked_count
    THEN <<Head(s)>> \o InsertByLinkedCount(x, Tail(s))
    ELSE <<x>> \o s

RECURSIVE SortByLinkedCount(_)
SortByLinkedCount(items) ==
    IF items = <<>> THEN <<>>
    ELSE InsertByLinkedCount(items[Len(items)],
                             SortByLinkedCount(SubSeq(items, 1, Len(items) - 1)))

\* payer_to_linked.get(payer_id, [])
LinkedOf(payer_to_linked, payer_id) ==
    IF payer_id \in DOMAIN payer_to_linked THEN payer_to_linked[payer_id] ELSE <<>>

\* payer_with_counts of analyze_single_date_accounts, sorted
PayerWithCounts(analysis) ==
    SortByLinkedCount(
        [i \in DOMAIN analysis.payer_accounts |->
            LET payer == analysis.payer_accounts[i]
                linked_accounts == LinkedOf(analysis.payer_to_linked, payer.account_id)
            IN  [payer           |-> payer,
                 linked_count    |-> Len(linked_accounts),
                 linked_accounts |-> linked_accounts]])

\* the report of analyze_single_date_accounts, by its figures; the f-string of the
\* overview divides total_linked by total_payers, and the tag and status sections
\* divide by len(accounts)
analyze_single_date_accounts(dir, date) ==
    LET accounts == load_enterprise_accounts_data(dir, date)
    IN  IF accounts.status # "ok" THEN [status |-> "error", error |-> accounts]
        ELSE
        LET analysis == analyze_enterprise_accounts(accounts.accounts)
            tagged_accounts ==
                Len(SelectSeq(accounts.accounts, LAMBDA a : a.tags # <<>>))
        IN  IF analysis.total_payers = 0
            THEN [status |-> "error", error |-> ZeroDivisionError]
            ELSE [status            |-> "ok",
                  total_accounts    |-> Len(accounts.accounts),
                  total_payers      |-> analysis.total_payers,
                  total_linked      |-> analysis.total_linked,
                  linked_per_payer  |-> Ratio(analysis.total_linked, analysis.total_payers),
                  tagged_share      |-> Ratio(tagged_accounts, Len(accounts.accounts)),
                  payer_share       |-> Ratio(analysis.total_payers, Len(accounts.accounts)),
                  payer_with_counts |-> PayerWithCounts(analysis)]

\* the report of analyze_partner_overall_business, by its figures; every share is a
\* division by total_accounts
analyze_partner_overall_business(dir, date) ==
    LET accounts == load_accounts_data(dir, date)
    IN  IF accounts.status # "ok" THEN [status |-> "error", error |-> accounts]
        ELSE
        LET analysis == analyze_all_accounts(accounts.accounts)
        IN  IF analysis.total_accounts = 0
            THEN [status |-> "error", error |-> ZeroDivisionError]
            ELSE [status           |-> "ok",
                  total_accounts   |-> analysis.total_accounts,
                  payer_share      |-> Ratio(analysis.total_payers, analysis.total_accounts),
                  linked_share     |-> Ratio(analysis.total_linked, analysis.total_accounts),
                  enterprise_share |->
                      Ratio(analysis.total_enterprise, analysis.total_accounts),
                  business_share   |->
                      Ratio(analysis.total_business, analysis.total_accounts),
                  developer_share  |->
                      Ratio(analysis.total_developer, analysis.total_accounts),
                  basic_share      |-> Ratio(analysis.total_basic, analysis.total_accounts),
                  status_stats     |-> analysis.status_stats]

Max(a, b) == IF a >= b THEN a ELSE b

\* the branch chain of _calculate_payer_load_distribution
LoadCategory(linked_count) ==
    IF linked_count = 0 THEN "no_linked"
    ELSE IF linked_count <= 3 THEN "light_load"
    ELSE IF linked_count <= 10 THEN "medium_load"
    ELSE IF linked_count <= 20 THEN "heavy_load"
    ELSE "super_heavy"

calculate_payer_load_distribution(payer_analysis) ==
    [c \in {"no_linked", "light_load", "medium_load", "heavy_load", "super_heavy"} |->
        Cardinality({i \in DOMAIN payer_analysis :
                        LoadCategory(payer_analysis[i].linked_count) = c})]

\* the local payer_to_linked of analyze_payer_distribution: every LINKED record of the
\* list, whatever its support level, under its payer_id
payer_distribution_groups(accounts) == PayerToLinked(SelectSeq(accounts, is_linked))

\* payer_info of one payer; the tag distribution is left out: it is built from the
\* tags of the linked records, which no file of the model carries
PayerInfo(payer, payer_to_linked) ==
    LET linked_list == LinkedOf(payer_to_linked, payer.account_id)
        support_level_dist == CountBy(linked_list, LAMBDA a : a.support_level)
    IN  [payer                        |-> payer,
         linked_count                 |-> Len(linked_list),
         linked_accounts              |-> linked_list,
         support_level_distribution   |-> support_level_dist,
         avg_linked_per_support_level |->
             Ratio(Len(linked_list), Max(1, Cardinality(DOMAIN support_level_dist)))]

analyze_payer_distribution(accounts) ==
    LET payer_accounts == SelectSeq(accounts, is_payer)
        linked_accounts == SelectSeq(accounts, is_linked)
        payer_to_linked == payer_distribution_groups(accounts)
        payer_analysis ==
            SortByLinkedCount([i \in DOMAIN payer_accounts |->
                                  PayerInfo(payer_accounts[i], payer_to_linked)])
    IN  [payer_analysis          |-> payer_analysis,
         total_payers            |-> Len(payer_accounts),
         total_linked            |-> Len(linked_accounts),
         avg_linked_per_payer    |->
             Ratio(Len(linked_accounts), Max(1, Len(payer_accounts))),
         payer_load_distribution |-> calculate_payer_load_distribution(payer_analysis)]

----------------------------------------------------------------------------
(* Gini coefficient *)

RECURSIVE InsertSorted(_, _)
InsertSorted(x, s) ==
    IF s = <<>> THEN <<x>>
    ELSE IF x <= Head(s) THEN <<x>> \o s
    ELSE <<Head(s)>> \o InsertSorted(x, Tail(s))

\* sorted(values), ascending
RECURSIVE Sorted(_)
Sorted(values) ==
    IF values = <<>> THEN <<>> ELSE InsertSorted(Head(values), Sorted(Tail(values)))

RECURSIVE Sum(_)
Sum(values) == IF values = <<>> THEN 0 ELSE Head(values) + Sum(Tail(values))

\* the float 0.0, and the float nearest to num / den: the quotient of two integers,
\* kept exact as a fraction with den > 0
Zero == [num |-> 0, den |-> 1]

\* the loop of _calculate_gini_coefficient over enumerate(sorted_values), i from 0
RECURSIVE GiniLoop(_, _, _)
GiniLoop(sorted_values, i, n) ==
    IF i >= n THEN 0
    ELSE (2 * (i + 1) - n - 1) * sorted_values[i + 1] + GiniLoop(sorted_values, i + 1, n)

GiniWithoutSort(values) ==
    IF values = <<>> \/ \A i \in DOMAIN values : values[i] = 0 THEN Zero
    ELSE [num |-> GiniLoop(values, 0, Len(values)), den |-> Len(values) * Sum(values)]

RECURSIVE GiniLoopRankFromTwo(_, _, _)
GiniLoopRankFromTwo(sorted_values, i, n) ==
    IF i >= n THEN 0
    ELSE (2 * (i + 2) - n - 1) * sorted_values[i + 1]
             + GiniLoopRankFromTwo(sorted_values, i + 1, n)

GiniRankFromTwo(values) ==
    IF values = <<>> \/ \A i \in DOMAIN values : values[i] = 0 THEN Zero
    ELSE [num |-> GiniLoopRankFromTwo(Sorted(values), 0, Len(values)),
          den |-> Len(values) * Sum(values)]

calculate_gini_coefficient(values) ==
    IF values = <<>> \/ \A i \in DOMAIN values : values[i] = 0 THEN Zero
    ELSE LET sorted_values == Sorted(values)
             n == Len(sorted_values)
             cumsum == Sum(sorted_values)
         IN  IF cumsum = 0 THEN Zero
             ELSE [num |-> GiniLoop(sorted_values, 0, n), den |-> n * cumsum]

----------------------------------------------------------------------------
(* Ticket loader and per-payer ticket aggregation *)

K_PayerId == "Account PayerId"
K_Category == "Category (C)"
K_SourceFile == "_source_file"

S_cases == <<"c", "a", "s", "e", "s", "-">>

S_technical_support ==
    <<"t", "e", "c", "h", "n", "i", "c", "a", "l", " ", "s", "u", "p", "p", "o", "r", "t">>

EndsWith(s, p) == Len(s) >= Len(p) /\ SubSeq(s, Len(s) - Len(p) + 1, Len(s)) = p

\* month.replace('-', '')
RECURSIVE RemoveDashes(_)
RemoveDashes(s) ==
    IF s = <<>> THEN <<>>
    ELSE IF Head(s) = "-" THEN RemoveDashes(Tail(s))
    ELSE <<Head(s)>> \o RemoveDashes(Tail(s))

\* the rows of one file as csv.DictReader gives them, each tagged with its file
TaggedRows(dir, filename) ==
    [k \in DOMAIN dir.files[filename] |->
        (K_SourceFile :> filename) @@ dir.files[filename][k]]

\* listing is os.listdir(data_dir): the names of the directory in some order
load_case_data(dir, month, listing) ==
    IF ~dir.exists THEN <<>>
    ELSE IF month # <<>> /\ Strip(month) # <<>>
    THEN LET target_filename == S_cases \o RemoveDashes(Strip(month)) \o S_csv
         IN  IF target_filename \in Present(dir) THEN TaggedRows(dir, target_filename)
             ELSE <<>>
    ELSE Concat([i \in DOMAIN listing |->
                    IF StartsWith(listing[i], S_cases) /\ EndsWith(listing[i], S_csv)
                    THEN TaggedRows(dir, listing[i]) ELSE <<>>])

CasePayer(case) == Strip(RowGet(case, K_PayerId))

CaseCategory(case) == Strip(RowGet(case, K_Category))

IsTechnical(case) == Lower(CaseCategory(case)) = S_technical_support

IsTechnicalCaseSensitive(case) == CaseCategory(case) = S_technical_support

\* payer_stats: the counters of the payer ids met in the loop over the cases
PayerStats(cases, Technical(_)) ==
    [p \in {CasePayer(cases[i]) : i \in DOMAIN cases} \ {<<>>} |->
        LET mine == {i \in DOMAIN cases : CasePayer(cases[i]) = p}
        IN  [total_cases           |-> Cardinality(mine),
             technical_support     |-> Cardinality({i \in mine : Technical(cases[i])}),
             non_technical_support |-> Cardinality({i \in mine : ~Technical(cases[i])}),
             categories            |-> {CaseCategory(cases[i]) : i \in mine}]]

\* the keys of payer_stats in insertion order: the order of first occurrence
RECURSIVE FirstSeenOrder(_, _)
FirstSeenOrder(cases, seen) ==
    IF cases = <<>> THEN <<>>
    ELSE LET p == CasePayer(Head(cases))
         IN  IF p = <<>> \/ p \in seen THEN FirstSeenOrder(Tail(cases), seen)
             ELSE <<p>> \o FirstSeenOrder(Tail(cases), seen \cup {p})

\* round(num / den, 0) of Python for integers num >= 0, den > 0: the nearest integer,
\* a tie going to the even one.  round(x, 1) is RoundHalfEven of ten times x, in
\* tenths; the floats of the code give the same value for every den below 40.
RoundHalfEven(num, den) ==
    LET q == num \div den
        r == num % den
    IN  IF 2 * r > den \/ (2 * r = den /\ q % 2 = 1) THEN q + 1 ELSE q

\* the branch chain on tech_percentage = technical / total * 100
SupportProfile(technical, total) ==
    IF 100 * technical >= 80 * total THEN "tech_oriented"
    ELSE IF 100 * technical >= 50 * total THEN "tech_primary"
    ELSE IF 100 * technical >= 20 * total THEN "mixed"
    ELSE "non_tech"

PayerAnalysis(stats) ==
    [total_cases           |-> stats.total_cases,
     support_profile       |-> SupportProfile(stats.technical_support, stats.total_cases),
     technical_support     |->
         [count      |-> stats.technical_support,
          percentage |-> IF stats.total_cases > 0
                         THEN RoundHalfEven(1000 * stats.technical_support, stats.total_cases)
                         ELSE 0],
     non_technical_support |->
         [count      |-> stats.non_technical_support,
          percentage |-> IF stats.total_cases > 0
                         THEN RoundHalfEven(1000 * stats.non_technical_support,
                                            stats.total_cases)
                         ELSE 0],
     unique_categories     |-> stats.categories,
     category_count        |-> Cardinality(stats.categories)]

\* sorted(items, key=total_cases, reverse=True): stable, so payers with equal totals
\* keep their insertion order
RECURSIVE InsertByTotal(_, _, _)
InsertByTotal(p, s, analysis) ==
    IF s = <<>> THEN <<p>>
    ELSE IF analysis[Head(s)].total_cases >= analysis[p].total_cases
    THEN <<Head(s)>> \o InsertByTotal(p, Tail(s), analysis)
    ELSE <<p>> \o s

RECURSIVE SortByTotal(_, _)
SortByTotal(order, analysis) ==
    IF order = <<>> THEN <<>>
    ELSE InsertByTotal(order[Len(order)],
                       SortByTotal(SubSeq(order, 1, Len(order) - 1), analysis), analysis)

RECURSIVE SumOver(_, _)
SumOver(S, f) ==
    IF S = {} THEN 0
    ELSE LET x == CHOOSE y \in S : TRUE IN f[x] + SumOver(S \ {x}, f)

AnalyzeCases(cases, month, Technical(_)) ==
    IF cases = <<>> THEN [status |-> "error", month |-> month]
    ELSE
    LET payer_stats == PayerStats(cases, Technical)
        payer_analysis == [p \in DOMAIN payer_stats |-> PayerAnalysis(payer_stats[p])]
        sorted_payers == SortByTotal(FirstSeenOrder(cases, {}), payer_analysis)
        total_payers == Cardinality(DOMAIN payer_stats)
        total_cases == SumOver(DOMAIN payer_analysis,
                               [p \in DOMAIN payer_analysis |-> payer_analysis[p].total_cases])
        Profiled(profile) ==
            Cardinality({p \in DOMAIN payer_analysis :
                            payer_analysis[p].support_profile = profile})
        top_3_payers == SubSeq(sorted_payers, 1, IF Len(sorted_payers) < 3
                                                 THEN Len(sorted_payers) ELSE 3)
    IN  [status            |-> "ok",
         overview          |->
             [total_payers |-> total_payers,
              total_cases  |-> total_cases,
              source_files |-> {RowGet(cases[i], K_SourceFile) : i \in DOMAIN cases}],
         payer_profiles    |->
             [tech_oriented |-> Profiled("tech_oriented"),
              tech_primary  |-> Profiled("tech_primary"),
              mixed         |-> Profiled("mixed"),
              non_tech      |-> Profiled("non_tech")],
         top_accounts      |-> top_3_payers,
         sorted_payers     |-> sorted_payers,
         detailed_analysis |-> payer_analysis,
         average_cases     |-> IF total_payers > 0
                               THEN RoundHalfEven(10 * total_cases, total_payers) ELSE 0]

AnalyzeCasesCaseSensitive(dir, month, listing) ==
    AnalyzeCases(load_case_data(dir, month, listing), month, IsTechnicalCaseSensitive)

\* an analysis whose overview counts every loaded case
AnalyzeCasesCountingEveryCase(dir, month, listing) ==
    LET cases == load_case_data(dir, month, listing)
        analysis == AnalyzeCases(cases, month, IsTechnical)
    IN  IF analysis.status # "ok" THEN analysis
        ELSE [analysis EXCEPT !.overview.total_cases = Len(cases)]

analyze_cases_by_payer(dir, month, listing) ==
    AnalyzeCases(load_case_data(dir, month, listing), month, IsTechnical)

\* what a tool gives back when an exception leaves it
Raised(exception) == [status |-> "raised", exception |-> exception]

\* the return value of the tools when load_case_data gave no case
NoCasesError(month) == [status |-> "error", month |-> month]

\* load_customer_mapping() without a readable mapping file: the empty dict
customer_mapping == {}

analyze_cases_by_category(dir, month, listing) ==
    LET cases == load_case_data(dir, month, listing)
    IN  IF cases = <<>> THEN NoCasesError(month)
        ELSE
        LET named == {i \in DOMAIN cases : CaseCategory(cases[i]) # <<>>}
            category_stats ==
                [c \in {CaseCategory(cases[i]) : i \in named} |->
                    Cardinality({i \in named : CaseCategory(cases[i]) = c})]
        IN  [status       |-> "ok",
             total_cases  |-> Len(cases),
             categories   |-> category_stats,
             source_files |-> {RowGet(cases[i], K_SourceFile) : i \in DOMAIN cases}]

get_payer_accounts_beautiful_table(dir, month, listing) ==
    LET cases == load_case_data(dir, month, listing)
    IN  IF cases = <<>> THEN NoCasesError(month)
        ELSE
        LET payer_stats == PayerStats(cases, IsTechnical)
            total_payers == Cardinality(DOMAIN payer_stats)
            Total(field) ==
                SumOver(DOMAIN payer_stats, [p \in DOMAIN payer_stats |-> payer_stats[p][field]])
            mapped_customers ==
                Cardinality({p \in DOMAIN payer_stats : p \in customer_mapping})
        IN  \* "summary" divides mapped_customers by total_payers without a guard
            IF total_payers = 0 THEN Raised("ZeroDivisionError")
            ELSE [status         |-> "ok",
                  total_accounts |-> total_payers,
                  total_cases    |-> Total("total_cases"),
                  total_tech     |-> Total("technical_support"),
                  total_non_tech |-> Total("non_technical_support"),
                  table_data     |-> SortByTotal(FirstSeenOrder(cases, {}), payer_stats),
                  mapped_customers |-> mapped_customers]

\* the tier of a payer by its number of cases
Segment(total_cases) ==
    IF total_cases >= 10 THEN "large"
    ELSE IF total_cases >= 3 THEN "medium"
    ELSE "small"

analyze_payer_accounts_table(dir, month, listing) ==
    LET cases == load_case_data(dir, month, listing)
    IN  IF cases = <<>> THEN NoCasesError(month)
        ELSE
        LET payer_stats == PayerStats(cases, IsTechnical)
            total_payers == Cardinality(DOMAIN payer_stats)
            total_cases ==
                SumOver(DOMAIN payer_stats,
                        [p \in DOMAIN payer_stats |-> payer_stats[p].total_cases])
            InSegment(segment) ==
                {p \in DOMAIN payer_stats : Segment(payer_stats[p].total_cases) = segment}
            mapped_customers ==
                Cardinality({p \in DOMAIN payer_stats : p \in customer_mapping})
        IN  \* "summary" divides mapped_customers by total_payers without a guard
            IF total_payers = 0 THEN Raised("ZeroDivisionError")
            ELSE [status           |-> "ok",
                  total_payers     |-> total_payers,
                  total_cases      |-> total_cases,
                  large_customers  |-> InSegment("large"),
                  medium_customers |-> InSegment("medium"),
                  small_customers  |-> InSegment("small"),
                  mapped_customers |-> mapped_customers]

----------------------------------------------------------------------------
(* Inputs of the locator specification *)

D_0731 == <<"0", "7", "3", "1">>
D_0801 == <<"0", "8", "0", "1">>
Y_2024 == <<"2", "0", "2", "4">>

\* date components of the file names of a folder: short, long of another year than
\* the default one, and one that is neither 4 nor 8 characters
FileDates == {D_0731, Y_2024 \o D_0731, <<"0", "7">>}

\* what precedes the date in a file name; the last one is another customer's file
FilePrefixes ==
    {customer \o S_dash \o S_CMC \o S_accounts, customer \o S_dash \o S_accounts,
     S_accounts, S_CMC \o S_accounts, <<"c", "2", "-">> \o S_accounts}

\* files of the default year and of a second day, and files whose name goes on
\* after .csv
OtherFiles ==
    {S_accounts \o DefaultYear \o D_0731 \o S_csv,
     S_CMC \o S_accounts \o D_0801 \o S_csv,
     S_accounts \o D_0801 \o S_csv \o <<".", "b", "a", "k">>,
     customer \o S_dash \o S_accounts \o Y_2024 \o D_0731 \o S_csv \o <<"~">>}

FileUniverse == {p \o d \o S_csv : p \in FilePrefixes, d \in FileDates} \cup OtherFiles

Tokens ==
    {D_0731, DefaultYear \o D_0731, Y_2024 \o D_0731, D_0801, DefaultYear \o D_0801,
     <<"0", "7">>, <<>>}

Row(name, id, level, type, payer) ==
    (K_AccountName :> name) @@ (K_AccountID :> id) @@ (K_SupportLevel :> level) @@
    (K_Status :> <<"A">>) @@ (K_LinkedAccounts :> <<>>) @@ (K_AccountType :> type) @@
    (K_PayerID :> payer) @@ (K_Tags :> <<>>)

\* in a locator folder every file holds one row that carries the file's own name, so
\* that two loads return equal records only when they read the same file
SelfNamed(filename) == <<Row(filename, <<"1">>, S_ENTERPRISE, S_PAYER_ACCOUNT, <<>>)>>

\* the subsets of S of at most n elements
RECURSIVE SubsetsUpTo(_, _)
SubsetsUpTo(S, n) ==
    IF n = 0 THEN {{}}
    ELSE LET smaller == SubsetsUpTo(S, n - 1)
         IN  smaller \cup {T \cup {x} : T \in smaller, x \in S}

LocateFolders ==
    {NoDir} \cup
    {[exists |-> TRUE, files |-> [f \in S |-> SelfNamed(f)]] :
        S \in SubsetsUpTo(FileUniverse, MaxFiles)}

\* the server is idle: no call is being answered
NoCall == [op |-> "none"]

\* the observer of a session: each answered load_accounts_data call, as the pair of
\* its date argument and its result, and whether some date was asked more than once
NoHistory == [recording |-> FALSE, loads |-> {}, repeated |-> FALSE]

EmptyHistory == [recording |-> TRUE, loads |-> {}, repeated |-> FALSE]

Record(h, date, result) ==
    IF ~h.recording THEN h
    ELSE [h EXCEPT !.loads = @ \cup {[date |-> date, result |-> result]},
                   !.repeated = @ \/ \E l \in h.loads : l.date = date]

Idle == call = NoCall

\* the answer of the last call goes back to the caller; the server is idle again
Deliver ==
    /\ ~Idle
    /\ call' = NoCall
    /\ UNCHANGED <<folder, case_dir, history>>

InitLocate ==
    /\ folder \in LocateFolders
    /\ case_dir = NoDir
    /\ call = NoCall
    /\ history = NoHistory

NormalizeDateFormat ==
    \E t \in Tokens :
        /\ Idle
        /\ call' = [op |-> "normalize_date_format", date_str |-> t,
                    result |-> normalize_date_format(t)]
        /\ UNCHANGED <<folder, case_dir, history>>

ExpandDateFormat ==
    \E t \in Tokens :
        /\ Idle
        /\ call' = [op |-> "expand_date_format", date_str |-> t,
                    result |-> expand_date_format(t)]
        /\ UNCHANGED <<folder, case_dir, history>>

GetAvailableDates ==
    /\ Idle
    /\ call' = [op |-> "get_available_dates", result |-> get_available_dates(folder)]
    /\ UNCHANGED <<folder, case_dir, history>>

\* a load that keeps the snapshots it has read, one per day, and answers from them
LoadAccountsDataKeptByDay ==
    \E t \in Tokens :
        LET kept == {l \in history.loads :
                        /\ l.result.status = "ok"
                        /\ normalize_date_format(l.date) = normalize_date_format(t)}
            result == IF kept = {} THEN load_accounts_data(folder, t)
                      ELSE (CHOOSE l \in kept : TRUE).result
        IN  /\ Idle
            /\ call' = [op |-> "load_accounts_data", date |-> t, result |-> result]
            /\ history' = Record(history, t, result)
            /\ UNCHANGED <<folder, case_dir>>

LoadAccountsData ==
    \E t \in Tokens :
        /\ Idle
        /\ call' = [op |-> "load_accounts_data", date |-> t,
                    result |-> load_accounts_data(folder, t)]
        /\ history' = Record(history, t, load_accounts_data(folder, t))
        /\ UNCHANGED <<folder, case_dir>>

NextLocate ==
    \/ NormalizeDateFormat
    \/ ExpandDateFormat
    \/ GetAvailableDates
    \/ LoadAccountsData
    \/ Deliver

SpecLocate == InitLocate /\ [][NextLocate]_vars

----------------------------------------------------------------------------
(* Claims on the locator and the loader *)

IsLoad == call.op = "load_accounts_data"

NoAcceptedFile == \A f \in Present(folder) : FirstPattern(f) = 0

\* C4 (as claimed): a load with an 8-character token and a load with its last four
\* characters select the same file and return the same records, or both fail with
\* FileNotFoundError.
C4_LongAndShortTokenLoadTheSame ==
    (IsLoad /\ Len(call.date) = LongLen) =>
        LET short == load_accounts_data(folder, SliceFrom(call.date, 4))
        IN  /\ short.status = call.result.status
            /\ call.result.status = "ok" =>
                   /\ short.filepath = call.result.filepath
                   /\ short.accounts = call.result.accounts

\* C5 (as claimed): when no file of the folder matches an accepted pattern,
\* get_available_dates returns the empty list and load_accounts_data raises
\* FileNotFoundError, listing every attempted file name, for any token.
C5_NoAcceptedFileMeansNotFound ==
    NoAcceptedFile =>
        /\ call.op = "get_available_dates" => call.result = <<>>
        /\ IsLoad => /\ call.result.status = "FileNotFoundError"
                     /\ call.result.possible_filenames = possible_filenames(call.date)

\* C6: for a token of length 4 or 8 the first element of expand_date_format is the
\* 4-character short form, and normalizing it gives what normalizing the token gives.
C6_RoundTripThroughShortForm ==
    (call.op = "expand_date_format" /\ Len(call.date_str) \in {ShortLen, LongLen}) =>
        /\ Len(call.result[1]) = ShortLen
        /\ normalize_date_format(call.result[1]) = normalize_date_format(call.date_str)

C6_Witness ==
    /\ call.op = "expand_date_format"
    /\ call.date_str = Y_2024 \o D_0731
    /\ call.result[1] = D_0731

\* the date components of a file name that an accepted pattern reads: the 4 or 8
\* digits between one of the four prefixes and .csv
AcceptedPrefixes ==
    {customer \o S_dash \o S_CMC \o S_accounts, customer \o S_dash \o S_accounts,
     S_accounts, S_CMC \o S_accounts}

DateComponents(filename) ==
    {d \in UNION {{SubSeq(filename, i, i + n - 1) : i \in 1..(Len(filename) - n + 1)} :
                     n \in {ShortLen, LongLen}} :
        /\ \A i \in DOMAIN d : IsDigit(d[i])
        /\ \E p \in AcceptedPrefixes : StartsWith(filename, p \o d \o S_csv)}

ShortForm(d) == SubSeq(d, Len(d) - ShortLen + 1, Len(d))

C18_TwoDays ==
    /\ call.op = "get_available_dates"
    /\ call.result = <<D_0731, D_0801>>

\* the templates in the order the claim states, for one date form and for a token
StatedTemplates(date_fmt) ==
    <<customer \o S_dash \o S_CMC \o S_accounts \o date_fmt \o S_csv,
      customer \o S_dash \o S_accounts \o date_fmt \o S_csv,
      S_CMC \o S_accounts \o date_fmt \o S_csv,
      S_accounts \o date_fmt \o S_csv>>

StatedOrder(date) ==
    LET date_formats == expand_date_format(date)
    IN  Concat([i \in DOMAIN date_formats |-> StatedTemplates(date_formats[i])])

\* C17 (as claimed): the file a load reads is the first existing one in the order
\* customer-CMC-accounts, customer-accounts, CMC-accounts, accounts, crossed with the
\* date forms; when CMC-accounts-<D>.csv and accounts-<D>.csv both exist and no file
\* with the customer's prefix does, the CMC-accounts file is read.
C17_TemplatesTriedInTheStatedOrder ==
    (IsLoad /\ call.result.status = "ok") =>
        call.result.filepath =
            StatedOrder(call.date)[SelectFirst(StatedOrder(call.date), Present(folder))]

\* C26 (as claimed): every token of the list get_available_dates returns for the
\* folder is loadable: load_accounts_data with that token finds a file and does not
\* raise FileNotFoundError, whatever the year of an 8-digit file name and whatever
\* the other files of the folder.
C26_EveryListedDateLoads ==
    (IsLoad /\ call.date \in Range(get_available_dates(folder))) =>
        call.result.status = "ok"

\* the load of a listed date that does find its file
C26_ListedDateThatLoads ==
    /\ IsLoad
    /\ call.date \in Range(get_available_dates(folder))
    /\ call.result.status = "ok"

----------------------------------------------------------------------------
(* Inputs of the diff specification *)

S_Enterprise == <<"E", "n", "t", "e", "r", "p", "r", "i", "s", "e">>

\* rows of a generic snapshot: an Enterprise payer, an Enterprise payer whose level is
\* written in mixed case and whose id is quoted, an Enterprise linked account with the
\* id of the first payer, and a Business payer with the id of the second
RowUniverse ==
    {Row(<<"a">>, <<"1">>, S_ENTERPRISE, S_PAYER_ACCOUNT, <<>>),
     Row(<<"b">>, <<"\"", "2", "\"">>, S_Enterprise, S_PAYER_ACCOUNT, <<>>),
     Row(<<"c">>, <<"1">>, S_ENTERPRISE, S_LINKED_ACCOUNT, <<"2">>),
     Row(<<"d">>, <<"2">>, S_BUSINESS, S_PAYER_ACCOUNT, <<>>)}

Snapshots == UNION {[1..n -> RowUniverse] : n \in 0..MaxRecords}

P1 == <<"P", "1">>
P2 == <<"P", "2">>
P3 == <<"P", "3">>
L1 == <<"L", "1">>
L2 == <<"L", "2">>
L3 == <<"L", "3">>
L4 == <<"L", "4">>

PayerRow(id) == Row(id, id, S_ENTERPRISE, S_PAYER_ACCOUNT, <<>>)

LinkedRow(id, payer) == Row(id, id, S_ENTERPRISE, S_LINKED_ACCOUNT, payer)

\* the snapshots {P1:[], P2:[L1,L2]} and {P1:[L3], P3:[L4]}
ScenarioA == <<PayerRow(P1), PayerRow(P2), LinkedRow(L1, P2), LinkedRow(L2, P2)>>

ScenarioB == <<PayerRow(P1), LinkedRow(L3, P1), PayerRow(P3), LinkedRow(L4, P3)>>

\* the file of day 0731, named with the short form, and the file of day 0801, named
\* with the long form
File0731 == S_accounts \o D_0731 \o S_csv

File0801 == customer \o S_dash \o S_CMC \o S_accounts \o DefaultYear \o D_0801 \o S_csv

TwoFiles(a, b) == [exists |-> TRUE, files |-> (File0731 :> a) @@ (File0801 :> b)]

OneFile(a) == [exists |-> TRUE, files |-> (File0731 :> a)]

ScenarioFolder == TwoFiles(ScenarioA, ScenarioB)

DiffFolders ==
    {TwoFiles(a, b) : a \in Snapshots, b \in Snapshots}
        \cup {OneFile(a) : a \in Snapshots} \cup {ScenarioFolder}

\* tokens of the two dates of a diff: both days, and the long form of the first
FirstDates == {D_0731, D_0801}

SecondDates == {D_0731, DefaultYear \o D_0731, D_0801}

Init ==
    /\ folder \in DiffFolders
    /\ case_dir = NoDir
    /\ call = NoCall
    /\ history = NoHistory

ComparePayerChanges ==
    \E date1 \in FirstDates, date2 \in SecondDates :
        /\ Idle
        /\ call' = [op |-> "compare_payer_changes", date1 |-> date1, date2 |-> date2,
                    result |-> compare_payer_changes(folder, date1, date2)]
        /\ UNCHANGED <<folder, case_dir, history>>

GetDetailedLinkedChanges ==
    \E date1 \in FirstDates, date2 \in SecondDates :
        /\ Idle
        /\ call' = [op |-> "get_detailed_linked_changes", date1 |-> date1, date2 |-> date2,
                    result |-> get_detailed_linked_changes(folder, date1, date2)]
        /\ UNCHANGED <<folder, case_dir, history>>

AnalyzeSingleDateAccounts ==
    \E date \in FirstDates :
        /\ Idle
        /\ call' = [op |-> "analyze_single_date_accounts", date |-> date,
                    result |-> analyze_single_date_accounts(folder, date)]
        /\ UNCHANGED <<folder, case_dir, history>>

AnalyzePartnerOverallBusiness ==
    \E date \in FirstDates :
        /\ Idle
        /\ call' = [op |-> "analyze_partner_overall_business", date |-> date,
                    result |-> analyze_partner_overall_business(folder, date)]
        /\ UNCHANGED <<folder, case_dir, history>>

Next ==
    \/ ComparePayerChanges
    \/ GetDetailedLinkedChanges
    \/ AnalyzeSingleDateAccounts
    \/ AnalyzePartnerOverallBusiness
    \/ Deliver

Spec == Init /\ [][Next]_vars

----------------------------------------------------------------------------
(* Claims on the diff engine *)

\* the ids of the Enterprise records of one account type in the file a token selects,
\* read from the raw rows
IdsOfType(date, type) ==
    LET rows == folder.files[LocateFile(folder, date)]
    IN  {StripChars(RowGet(rows[i], K_AccountID), Quote) :
            i \in {j \in DOMAIN rows :
                      /\ Upper(StripChars(RowGet(rows[j], K_SupportLevel), Quote)) = S_ENTERPRISE
                      /\ StripChars(RowGet(rows[j], K_AccountType), Quote) = type}}

PayerDiffDone == call.op = "compare_payer_changes" /\ call.result.status = "ok"

LinkedDiffDone == call.op = "get_detailed_linked_changes" /\ call.result.status = "ok"

\* C1: in the payer diff of compare_payer_changes the sets new, removed and common are
\* pairwise disjoint, new and common together are the payer ids of the second
\* snapshot, and removed and common together are the payer ids of the first.
C1_PayerDiffPartitionsTheKeys ==
    PayerDiffDone =>
        LET r == call.result
        IN  /\ r.new_payers \cap r.removed_payers = {}
            /\ r.new_payers \cap r.common_payers = {}
            /\ r.removed_payers \cap r.common_payers = {}
            /\ r.new_payers \cup r.common_payers = IdsOfType(call.date2, S_PAYER_ACCOUNT)
            /\ r.removed_payers \cup r.common_payers = IdsOfType(call.date1, S_PAYER_ACCOUNT)

C1_Witness ==
    /\ PayerDiffDone
    /\ call.result.new_payers # {}
    /\ call.result.removed_payers # {}
    /\ call.result.common_payers # {}

SameFile == LocateFile(folder, call.date1) = LocateFile(folder, call.date2)

\* C2: when both dates select the same file, the payer diff has no new and no removed
\* payer and every payer id is common, and the linked diff has no new and no removed
\* linked account and no payer bucket.
C2_DiffOfASnapshotWithItselfIsEmpty ==
    /\ (PayerDiffDone /\ SameFile) =>
           /\ call.result.new_payers = {}
           /\ call.result.removed_payers = {}
           /\ call.result.common_payers = IdsOfType(call.date1, S_PAYER_ACCOUNT)
           /\ DOMAIN call.result.linked_changes.payer_changes = {}
    /\ (LinkedDiffDone /\ SameFile) =>
           /\ call.result.new_linked_ids = {}
           /\ call.result.removed_linked_ids = {}
           /\ call.result.net_change = 0
           /\ call.result.total_linked1 = call.result.total_linked2
           /\ call.result.total_linked1 =
                  Cardinality(IdsOfType(call.date1, S_LINKED_ACCOUNT))

C2_Witness ==
    /\ PayerDiffDone
    /\ call.date1 = D_0731
    /\ call.date2 = DefaultYear \o D_0731
    /\ Cardinality(call.result.common_payers) = 2
    /\ IdsOfType(call.date1, S_LINKED_ACCOUNT) # {}

FromScenarioAToB ==
    folder = ScenarioFolder /\ call.date1 = D_0731 /\ call.date2 = D_0801

\* C3: the payer diff is the diff of the ids of the PAYER records and the linked diff
\* is the diff of the ids of the LINKED records; from {P1:[], P2:[L1,L2]} to
\* {P1:[L3], P3:[L4]} the payer diff is new {P3}, removed {P2}, common {P1} and the
\* linked diff is new {L3,L4}, removed {L1,L2}.
C3_DiffsAreScopedToOneAccountType ==
    /\ PayerDiffDone =>
           /\ call.result.new_payers =
                  IdsOfType(call.date2, S_PAYER_ACCOUNT) \ IdsOfType(call.date1, S_PAYER_ACCOUNT)
           /\ call.result.removed_payers =
                  IdsOfType(call.date1, S_PAYER_ACCOUNT) \ IdsOfType(call.date2, S_PAYER_ACCOUNT)
           /\ call.result.common_payers =
                  IdsOfType(call.date1, S_PAYER_ACCOUNT) \cap IdsOfType(call.date2, S_PAYER_ACCOUNT)
    /\ LinkedDiffDone =>
           /\ call.result.new_linked_ids =
                  IdsOfType(call.date2, S_LINKED_ACCOUNT) \ IdsOfType(call.date1, S_LINKED_ACCOUNT)
           /\ call.result.removed_linked_ids =
                  IdsOfType(call.date1, S_LINKED_ACCOUNT) \ IdsOfType(call.date2, S_LINKED_ACCOUNT)
    /\ (PayerDiffDone /\ FromScenarioAToB) =>
           /\ call.result.new_payers = {P3}
           /\ call.result.removed_payers = {P2}
           /\ call.result.common_payers = {P1}
    /\ (LinkedDiffDone /\ FromScenarioAToB) =>
           /\ call.result.new_linked_ids = {L3, L4}
           /\ call.result.removed_linked_ids = {L1, L2}

C3_Witness ==
    /\ folder = ScenarioFolder
    /\ LinkedDiffDone
    /\ call.date1 = D_0731
    /\ call.date2 = D_0801
    /\ call.result.new_linked_ids = {L3, L4}

\* a generic pair of snapshots in which one id is a payer on one day and a linked
\* account on the other
C3_SameIdOfBothTypes ==
    /\ PayerDiffDone
    /\ folder # ScenarioFolder
    /\ IdsOfType(call.date1, S_PAYER_ACCOUNT) \cap IdsOfType(call.date2, S_LINKED_ACCOUNT) # {}
    /\ call.result.removed_payers # {}

DiffCalled == call.op \in {"compare_payer_changes", "get_detailed_linked_changes"}

LoadFails(date) == load_accounts_data(folder, date).status # "ok"

\* C15: when one of the two snapshots of a diff cannot be loaded, compare_payer_changes
\* and get_detailed_linked_changes return one error message, the one of the first
\* load that failed, and no part of a diff report.
C15_FailedLoadGivesOneErrorAndNoReport ==
    (DiffCalled /\ (LoadFails(call.date1) \/ LoadFails(call.date2))) =>
        /\ call.result.status = "error"
        /\ DOMAIN call.result = {"status", "error"}
        /\ call.result.error.status = "FileNotFoundError"
        /\ call.result.error.date =
               IF LoadFails(call.date1) THEN call.date1 ELSE call.date2

\* the first snapshot has payers and linked accounts, the second has no file
C15_Witness ==
    /\ call.op = "compare_payer_changes"
    /\ Present(folder) = {File0731}
    /\ IdsOfType(D_0731, S_PAYER_ACCOUNT) # {}
    /\ IdsOfType(D_0731, S_LINKED_ACCOUNT) # {}
    /\ call.date1 = D_0731
    /\ call.date2 = D_0801
    /\ call.result.status = "error"
    /\ call.result.error.date = D_0801

\* the file a one-date call names exists and was read
SnapshotRead == load_accounts_data(folder, call.date).status = "ok"

\* C13 (as claimed): on a snapshot without Enterprise payer records, or without
\* Enterprise records, analyze_single_date_accounts still returns the report, and on
\* a snapshot without records so does analyze_partner_overall_business; a ratio whose
\* denominator is zero is shown as 0 or N/A.
C13_ZeroDenominatorStillGivesTheReport ==
    /\ (call.op = "analyze_single_date_accounts" /\ SnapshotRead) =>
           call.result.status = "ok"
    /\ (call.op = "analyze_partner_overall_business" /\ SnapshotRead) =>
           call.result.status = "ok"

----------------------------------------------------------------------------
(* Inputs of the aggregation specification *)

MaxAccounts == 2     \* records in a list given to analyze_all_accounts

S_Business == <<"B", "u", "s", "i", "n", "e", "s", "s">>
S_developer == <<"d", "e", "v", "e", "l", "o", "p", "e", "r">>
S_Premium == <<"P", "r", "e", "m", "i", "u", "m">>

\* support levels as written in a file: each known tier, in upper, mixed or lower
\* case, a tier the code does not know, and the empty string
SupportLevels ==
    {S_ENTERPRISE, S_Enterprise, S_Business, S_developer, S_BASIC, S_Premium, <<>>}

\* account types: the two the code knows, and an unknown one
AccountTypes == {S_PAYER_ACCOUNT, S_LINKED_ACCOUNT, <<"O", "T", "H", "E", "R">>}

AccountUniverse ==
    {AccountRecord(Row(<<"n">>, <<"1">>, level, type, <<"2">>)) :
        level \in SupportLevels, type \in AccountTypes}

AccountLists == UNION {[1..n -> AccountUniverse] : n \in 0..MaxAccounts}

MaxRanked == 3       \* records in a list of payers and linked accounts

\* records of two payers, of a linked account under each, and of a linked account
\* whose payer_id is the id of no payer
GroupUniverse ==
    {AccountRecord(PayerRow(P1)), AccountRecord(PayerRow(P2)),
     AccountRecord(LinkedRow(L1, P1)), AccountRecord(LinkedRow(L2, P2)),
     AccountRecord(LinkedRow(L3, P3))}

GroupLists == UNION {[1..n -> GroupUniverse] : n \in 0..MaxRanked}

ValueLists == UNION {[1..n -> 0..MaxCount] : n \in 0..MaxValues}

InitAggregate ==
    /\ folder = NoDir
    /\ case_dir = NoDir
    /\ call = NoCall
    /\ history = NoHistory

AnalyzeEnterpriseAccounts ==
    \E accounts \in GroupLists :
        /\ Idle
        /\ call' = [op |-> "analyze_enterprise_accounts", accounts |-> accounts,
                    result |-> analyze_enterprise_accounts(accounts)]
        /\ UNCHANGED <<folder, case_dir, history>>

AnalyzePayerDistribution ==
    \E accounts \in GroupLists :
        /\ Idle
        /\ call' = [op |-> "analyze_payer_distribution", accounts |-> accounts,
                    result |-> analyze_payer_distribution(accounts)]
        /\ UNCHANGED <<folder, case_dir, history>>

AnalyzeAllAccounts ==
    \E accounts \in AccountLists \cup GroupLists :
        /\ Idle
        /\ call' = [op |-> "analyze_all_accounts", accounts |-> accounts,
                    result |-> analyze_all_accounts(accounts)]
        /\ UNCHANGED <<folder, case_dir, history>>

CalculateGiniCoefficient ==
    \E values \in ValueLists :
        /\ Idle
        /\ call' = [op |-> "_calculate_gini_coefficient", values |-> values,
                    result |-> calculate_gini_coefficient(values)]
        /\ UNCHANGED <<folder, case_dir, history>>

NextAggregate ==
    \/ AnalyzeEnterpriseAccounts
    \/ AnalyzePayerDistribution
    \/ AnalyzeAllAccounts
    \/ CalculateGiniCoefficient
    \/ Deliver

SpecAggregate == InitAggregate /\ [][NextAggregate]_vars

----------------------------------------------------------------------------
(* Claims on the aggregates *)

AnalyzedAll == call.op = "analyze_all_accounts"

LevelBuckets ==
    <<call.result.enterprise_accounts, call.result.business_accounts,
      call.result.developer_accounts, call.result.basic_accounts,
      call.result.other_accounts>>

\* C7: analyze_all_accounts puts every record in exactly one of the five support-tier
\* buckets, so the five totals sum to the number of records, which is total_accounts,
\* and total_payers + total_linked is at most the number of records.
C7_EveryRecordInExactlyOneTierBucket ==
    AnalyzedAll =>
        LET r == call.result
            n == Len(call.accounts)
        IN  /\ \A i \in 1..n :
                   Cardinality({b \in DOMAIN LevelBuckets :
                                   \E k \in DOMAIN LevelBuckets[b] :
                                       LevelBuckets[b][k] = call.accounts[i]}) = 1
            /\ r.total_enterprise + r.total_business + r.total_developer
                   + r.total_basic + r.total_other = n
            /\ r.total_accounts = n
            /\ r.total_payers + r.total_linked <= n

C7_Witness ==
    /\ AnalyzedAll
    /\ call.result.total_enterprise = 1
    /\ call.result.total_other = 1
    /\ call.result.total_payers + call.result.total_linked < Len(call.accounts)

GiniDone == call.op = "_calculate_gini_coefficient"

Uniform(values) == \A i, j \in DOMAIN values : values[i] = values[j]

\* C9: _calculate_gini_coefficient returns 0 for every list whose values are all
\* equal, the all-zero lists among them, and for the empty list.
C9_GiniOfUniformListIsZero ==
    (GiniDone /\ Uniform(call.values)) =>
        call.result.num = 0 /\ call.result.den > 0

C9_Witness ==
    /\ GiniDone
    /\ Len(call.values) = MaxValues
    /\ Uniform(call.values)
    /\ call.values[1] > 0

\* one value is positive and every other value is 0
Concentrated(values) ==
    \E i \in DOMAIN values :
        values[i] > 0 /\ \A j \in DOMAIN values \ {i} : values[j] = 0

\* the sum of |x - y| over the unordered pairs of positions of the list, which is what
\* the sum of (2 * rank - n - 1) * value over the ascending ranks comes to
PairwiseDifferences(values) ==
    LET Abs(x) == IF x < 0 THEN -x ELSE x
        pairs == {p \in (DOMAIN values) \X (DOMAIN values) : p[1] < p[2]}
        RECURSIVE Total(_)
        Total(S) == IF S = {} THEN 0
                    ELSE LET p == CHOOSE q \in S : TRUE
                         IN  Abs(values[p[1]] - values[p[2]]) + Total(S \ {p})
    IN  Total(pairs)

\* C10: for one positive value and n - 1 zeros the result is (n - 1) / n; for a list
\* with a positive sum it is the rank-weighted sum divided by n * sum(values); and
\* for every non-empty list it lies in [0, (n - 1) / n].
C10_GiniOfConcentratedListAndRange ==
    GiniDone =>
        LET n == Len(call.values)
            r == call.result
        IN  /\ r.den > 0
            /\ Concentrated(call.values) => r.num * n = (n - 1) * r.den
            /\ Sum(call.values) > 0 =>
                   /\ r.den = n * Sum(call.values)
                   /\ r.num = PairwiseDifferences(call.values)
            /\ r.num >= 0
            /\ n >= 1 => r.num * n <= (n - 1) * r.den
            /\ n = 0 => r.num = 0

C10_Witness ==
    /\ GiniDone
    /\ Len(call.values) = MaxValues
    /\ Concentrated(call.values)
    /\ call.values[1] = MaxCount
    /\ call.result.num > 0

----------------------------------------------------------------------------
(* Inputs of the ticket specification *)

S_Technical_support ==
    <<"T", "e", "c", "h", "n", "i", "c", "a", "l", " ", "s", "u", "p", "p", "o", "r", "t">>

S_TECHNICAL_SUPPORT_padded ==
    <<" ", "T", "E", "C", "H", "N", "I", "C", "A", "L", " ", "S", "U", "P", "P", "O", "R",
      "T", " ">>

S_Billing == <<"B", "i", "l", "l", "i", "n", "g">>

CaseRow(payer, category) == (K_PayerId :> payer) @@ (K_Category :> category)

\* the rows of a generic ticket file: two payers, one of them also written padded
\* with blanks next to a padded upper-case category, a row whose payer id is empty,
\* and a row that has no payer column
CaseUniverse ==
    {CaseRow(<<"7">>, S_Technical_support),
     CaseRow(<<" ", "7", " ">>, S_TECHNICAL_SUPPORT_padded),
     CaseRow(<<"7">>, S_Billing),
     CaseRow(<<"8">>, S_Technical_support),
     CaseRow(<<"8">>, S_Billing),
     CaseRow(<<>>, S_Billing),
     (K_Category :> S_technical_support)}

CaseLists == UNION {[1..n -> CaseUniverse] : n \in 0..MaxCases}

\* 10 tickets of one payer, 6 of them technical support in several spellings
ScenarioCases ==
    <<CaseRow(<<"7">>, S_Technical_support), CaseRow(<<"7">>, S_Billing),
      CaseRow(<<"7">>, S_TECHNICAL_SUPPORT_padded), CaseRow(<<"7">>, S_technical_support),
      CaseRow(<<"7">>, <<>>), CaseRow(<<"7">>, S_Technical_support),
      CaseRow(<<"7">>, S_Billing), CaseRow(<<"7">>, S_technical_support),
      CaseRow(<<"7">>, S_Technical_support \o <<"s">>),
      CaseRow(<<"7">>, S_TECHNICAL_SUPPORT_padded)>>

File202507 == S_cases \o <<"2", "0", "2", "5", "0", "7">> \o S_csv

File202506 == S_cases \o <<"2", "0", "2", "5", "0", "6">> \o S_csv

CaseDirs ==
    {NoDir}
        \cup {[exists |-> TRUE, files |-> (File202507 :> rows)] : rows \in CaseLists}
        \cup {[exists |-> TRUE, files |-> (File202507 :> rows) @@ (File202506 :> other)] :
                 rows \in {<<>>, ScenarioCases},
                 other \in {<<CaseRow(<<"8">>, S_Billing)>>,
                            <<CaseRow(<<"7">>, S_Technical_support)>>}}
        \cup {[exists |-> TRUE, files |-> (File202507 :> ScenarioCases)]}

\* month arguments: none, the two accepted forms, one padded, one without a file
Months ==
    {<<>>, <<"2", "0", "2", "5", "0", "7">>, <<"2", "0", "2", "5", "-", "0", "7">>,
     <<" ", "2", "0", "2", "5", "0", "7">>, <<"2", "0", "2", "5", "0", "8">>}

\* the orders in which os.listdir may give the names of a set
RECURSIVE Listings(_)
Listings(S) ==
    IF S = {} THEN {<<>>}
    ELSE UNION {{<<x>> \o rest : rest \in Listings(S \ {x})} : x \in S}

InitCases ==
    /\ folder = NoDir
    /\ case_dir \in CaseDirs
    /\ call = NoCall
    /\ history = NoHistory

\* a tool that stores the rows back with the file tag load_case_data gives them
AnalyzeCasesByPayerSavingTags ==
    \E month \in Months, listing \in Listings(Present(case_dir)) :
        LET target_filename == S_cases \o RemoveDashes(Strip(month)) \o S_csv
        IN  /\ Idle
            /\ call' = [op |-> "analyze_cases_by_payer", month |-> month,
                        cases |-> load_case_data(case_dir, month, listing),
                        result |-> analyze_cases_by_payer(case_dir, month, listing)]
            /\ case_dir' =
                   IF target_filename \in Present(case_dir)
                   THEN [case_dir EXCEPT
                            !.files[target_filename] = TaggedRows(case_dir, target_filename)]
                   ELSE case_dir
            /\ UNCHANGED <<folder, history>>

AnalyzeCasesByPayer ==
    \E month \in Months, listing \in Listings(Present(case_dir)) :
        /\ Idle
        /\ call' = [op |-> "analyze_cases_by_payer", month |-> month,
                    cases |-> load_case_data(case_dir, month, listing),
                    result |-> analyze_cases_by_payer(case_dir, month, listing)]
        /\ UNCHANGED <<folder, case_dir, history>>

AnalyzeCasesByCategory ==
    \E month \in Months, listing \in Listings(Present(case_dir)) :
        /\ Idle
        /\ call' = [op |-> "analyze_cases_by_category", month |-> month,
                    cases |-> load_case_data(case_dir, month, listing),
                    result |-> analyze_cases_by_category(case_dir, month, listing)]
        /\ UNCHANGED <<folder, case_dir, history>>

GetPayerAccountsBeautifulTable ==
    \E month \in Months, listing \in Listings(Present(case_dir)) :
        /\ Idle
        /\ call' = [op |-> "get_payer_accounts_beautiful_table", month |-> month,
                    cases |-> load_case_data(case_dir, month, listing),
                    result |-> get_payer_accounts_beautiful_table(case_dir, month, listing)]
        /\ UNCHANGED <<folder, case_dir, history>>

AnalyzePayerAccountsTable ==
    \E month \in Months, listing \in Listings(Present(case_dir)) :
        /\ Idle
        /\ call' = [op |-> "analyze_payer_accounts_table", month |-> month,
                    cases |-> load_case_data(case_dir, month, listing),
                    result |-> analyze_payer_accounts_table(case_dir, month, listing)]
        /\ UNCHANGED <<folder, case_dir, history>>

NextCases ==
    \/ AnalyzeCasesByPayer
    \/ AnalyzeCasesByCategory
    \/ GetPayerAccountsBeautifulTable
    \/ AnalyzePayerAccountsTable
    \/ Deliver

SpecCases == InitCases /\ [][NextCases]_vars

----------------------------------------------------------------------------
(* Claims on the ticket aggregation *)

CasesAnalyzed == call.op = "analyze_cases_by_payer" /\ call.result.status = "ok"

\* the cases of a payer among the loaded ones, and the technical ones among them,
\* counted on the loaded rows
CasesOf(p) == {i \in DOMAIN call.cases : Strip(RowGet(call.cases[i], K_PayerId)) = p}

TechnicalOf(p) ==
    {i \in CasesOf(p) :
        Lower(Strip(RowGet(call.cases[i], K_Category))) = S_technical_support}

\* C8: for every payer id technical_support.count is the number of its cases whose
\* trimmed category is "technical support" in any case, non_technical_support.count
\* is the number of its other cases, the two sum to total_cases, and the technical
\* percentage is 100 * technical / total rounded to one decimal; 10 cases of which 6
\* are technical give 6, 4 and 60.0.
C8_TechnicalSplitPerPayer ==
    CasesAnalyzed =>
        /\ DOMAIN call.result.detailed_analysis =
               {Strip(RowGet(call.cases[i], K_PayerId)) : i \in DOMAIN call.cases} \ {<<>>}
        /\ \A p \in DOMAIN call.result.detailed_analysis :
               LET a == call.result.detailed_analysis[p]
                   total == Cardinality(CasesOf(p))
                   tech == Cardinality(TechnicalOf(p))
               IN  /\ a.total_cases = total
                   /\ a.technical_support.count = tech
                   /\ a.non_technical_support.count = total - tech
                   /\ a.technical_support.count + a.non_technical_support.count
                          = a.total_cases
                   \* the percentage, in tenths, is within half a tenth of the quotient
                   /\ 2 * a.technical_support.percentage * total - 2000 * tech <= total
                   /\ 2000 * tech - 2 * a.technical_support.percentage * total <= total
        /\ call.cases = [i \in DOMAIN ScenarioCases |->
                            (K_SourceFile :> File202507) @@ ScenarioCases[i]] =>
               LET a == call.result.detailed_analysis[<<"7">>]
               IN  /\ a.technical_support.count = 6
                   /\ a.non_technical_support.count = 4
                   /\ a.technical_support.percentage = 600

C8_Witness ==
    /\ CasesAnalyzed
    /\ Len(call.cases) = 10
    /\ call.result.detailed_analysis[<<"7">>].technical_support.count = 6
    /\ call.result.detailed_analysis[<<"7">>].technical_support.percentage = 600

\* a generic file in which a padded payer id and a padded upper-case category count
\* for the trimmed payer as technical, next to a non-technical case
C8_PaddedSpellings ==
    /\ CasesAnalyzed
    /\ \E i \in DOMAIN call.cases :
           /\ RowGet(call.cases[i], K_PayerId) = <<" ", "7", " ">>
           /\ RowGet(call.cases[i], K_Category) = S_TECHNICAL_SUPPORT_padded
    /\ call.result.detailed_analysis[<<"7">>].technical_support.percentage = 333

\* C12 (as claimed): every call of a ticket tool gives back its result or an error
\* payload; no exception leaves a tool, also when the loaded cases are not empty and
\* none of them has a payer id.
C12_NoExceptionLeavesATool ==
    ~Idle => call.result.status \in {"ok", "error"}

\* the file a month argument names
TargetOf(month) == S_cases \o RemoveDashes(Strip(month)) \o S_csv

WithoutFile(dir, filename) ==
    [dir EXCEPT !.files = [f \in DOMAIN dir.files \ {filename} |-> dir.files[f]]]

\* what the tool of the last call gives on another directory, for the same month
SameToolOn(dir) ==
    CASE call.op = "analyze_cases_by_payer" ->
             analyze_cases_by_payer(dir, call.month, <<>>)
      [] call.op = "analyze_cases_by_category" ->
             analyze_cases_by_category(dir, call.month, <<>>)
      [] call.op = "get_payer_accounts_beautiful_table" ->
             get_payer_accounts_beautiful_table(dir, call.month, <<>>)
      [] call.op = "analyze_payer_accounts_table" ->
             analyze_payer_accounts_table(dir, call.month, <<>>)

\* C14 (as claimed): when the file a month names exists and has no row, a ticket
\* tool reports something else than it reports when that file, or the whole data
\* directory, does not exist.
C14_EmptyFileDiffersFromMissingFile ==
    (/\ ~Idle
     /\ Strip(call.month) # <<>>
     /\ TargetOf(call.month) \in Present(case_dir)
     /\ case_dir.files[TargetOf(call.month)] = <<>>) =>
        /\ call.result # SameToolOn(WithoutFile(case_dir, TargetOf(call.month)))
        /\ call.result # SameToolOn(NoDir)

----------------------------------------------------------------------------
(* The appearance scans: inputs, specification and claims *)

D_0630 == <<"0", "6", "3", "0">>

\* the file of day 0630 is of another year than the default one: the day is listed,
\* and a load of the listed token finds no file
File0630 == S_accounts \o Y_2024 \o D_0630 \o S_csv

\* P1 as a payer, the id P1 as a linked account, and another payer with a linked
\* account
ScanSnapshots ==
    {<<PayerRow(P1)>>, <<LinkedRow(P1, P2)>>, <<PayerRow(P2), LinkedRow(L1, P2)>>}

\* each of the three files is absent or holds one of the snapshots
ScanFolders ==
    {[exists |-> TRUE, files |-> [f \in DOMAIN content |-> content[f]]] :
        content \in UNION {[S -> ScanSnapshots] : S \in SUBSET {File0630, File0731, File0801}}}

ScanIds == {P1, L1, P3}

ScanTypes == {"PAYER", "LINKED"}

InitScan ==
    /\ folder \in ScanFolders
    /\ case_dir = NoDir
    /\ call = NoCall
    /\ history = NoHistory

FindAccountFirstAppearance ==
    \E account_id \in ScanIds, account_type \in ScanTypes :
        /\ Idle
        /\ call' = [op |-> "find_account_first_appearance",
                    account_id |-> account_id, account_type |-> account_type,
                    result |-> find_account_first_appearance(folder, account_id, account_type)]
        /\ UNCHANGED <<folder, case_dir, history>>

FindAccountLastAppearance ==
    \E account_id \in ScanIds, account_type \in ScanTypes :
        /\ Idle
        /\ call' = [op |-> "find_account_last_appearance",
                    account_id |-> account_id, account_type |-> account_type,
                    result |-> find_account_last_appearance(folder, account_id, account_type)]
        /\ UNCHANGED <<folder, case_dir, history>>

NextScan ==
    \/ FindAccountFirstAppearance
    \/ FindAccountLastAppearance
    \/ Deliver

SpecScan == InitScan /\ [][NextScan]_vars

TypeLiteral(account_type) ==
    IF account_type = "PAYER" THEN S_PAYER_ACCOUNT ELSE S_LINKED_ACCOUNT

\* the available dates whose load succeeds and whose file has a row with the id and
\* the account type of the last call, read from the raw rows
DatesHoldingTheAccount ==
    {d \in Range(get_available_dates(folder)) :
        /\ LocateFile(folder, d) # <<>>
        /\ LET rows == folder.files[LocateFile(folder, d)]
           IN  \E i \in DOMAIN rows :
                   /\ StripChars(RowGet(rows[i], K_AccountID), Quote) = call.account_id
                   /\ StripChars(RowGet(rows[i], K_AccountType), Quote)
                          = TypeLiteral(call.account_type)}

\* C19: find_account_first_appearance returns the smallest available date whose
\* snapshot has a record with the id and the requested account type, and None when
\* no available date has one.
C19_FirstAppearanceIsTheSmallestDate ==
    call.op = "find_account_first_appearance" =>
        IF DatesHoldingTheAccount = {} THEN call.result = NotSeen
        ELSE /\ call.result.found
             /\ call.result.date \in DatesHoldingTheAccount
             /\ \A d \in DatesHoldingTheAccount \ {call.result.date} :
                    StrLess(call.result.date, d)

\* the id is a linked account on the first loadable day and a payer on the next
C19_Witness ==
    /\ call.op = "find_account_first_appearance"
    /\ get_available_dates(folder) = <<D_0630, D_0731, D_0801>>
    /\ call.account_id = P1
    /\ call.account_type = "PAYER"
    /\ folder.files[File0731] = <<LinkedRow(P1, P2)>>
    /\ call.result = [found |-> TRUE, date |-> D_0801]

\* C20: find_account_last_appearance returns the greatest available date whose
\* snapshot has a record with the id and the requested account type, and None when
\* no available date has one.
C20_LastAppearanceIsTheGreatestDate ==
    call.op = "find_account_last_appearance" =>
        IF DatesHoldingTheAccount = {} THEN call.result = NotSeen
        ELSE /\ call.result.found
             /\ call.result.date \in DatesHoldingTheAccount
             /\ \A d \in DatesHoldingTheAccount \ {call.result.date} :
                    StrLess(d, call.result.date)

\* the account is on two days, and the scan answers the later one
C20_Witness ==
    /\ call.op = "find_account_last_appearance"
    /\ Cardinality(DatesHoldingTheAccount) = 2
    /\ call.account_type = "LINKED"
    /\ call.result = [found |-> TRUE, date |-> D_0801]

ScanCalled ==
    call.op \in {"find_account_first_appearance", "find_account_last_appearance"}

\* what the two scans answer for the customer, the id and the type of the last call
FirstAnswer ==
    IF call.op = "find_account_first_appearance" THEN call.result
    ELSE find_account_first_appearance(folder, call.account_id, call.account_type)

LastAnswer ==
    IF call.op = "find_account_last_appearance" THEN call.result
    ELSE find_account_last_appearance(folder, call.account_id, call.account_type)

\* C27: for one customer, account id and account type, find_account_first_appearance
\* returns None exactly when find_account_last_appearance returns None, and when
\* both return a date the first is less than or equal to the last.
C27_FirstAppearanceIsNotAfterTheLast ==
    ScanCalled =>
        /\ FirstAnswer.found = LastAnswer.found
        /\ FirstAnswer.found =>
               \/ FirstAnswer.date = LastAnswer.date
               \/ StrLess(FirstAnswer.date, LastAnswer.date)

\* the account is on two days: the first is before the last
C27_Witness ==
    /\ call.op = "find_account_first_appearance"
    /\ Cardinality(DatesHoldingTheAccount) = 2
    /\ FirstAnswer.found
    /\ StrLess(FirstAnswer.date, LastAnswer.date)

\* neither scan finds the account, although a listed day's file of another year
\* holds it
C27_BothNone ==
    /\ call.op = "find_account_last_appearance"
    /\ File0630 \in Present(folder)
    /\ folder.files[File0630] = <<PayerRow(P1)>>
    /\ call.account_id = P1
    /\ call.account_type = "PAYER"
    /\ ~FirstAnswer.found
    /\ ~LastAnswer.found

\* an account that only the file of the other year holds is not found
C19_ListedDayThatDoesNotLoad ==
    /\ call.op = "find_account_first_appearance"
    /\ File0630 \in Present(folder)
    /\ folder.files[File0630] = <<PayerRow(P1)>>
    /\ call.account_id = P1
    /\ call.account_type = "PAYER"
    /\ call.result = NotSeen

----------------------------------------------------------------------------
(* A session of the account server: any sequence of its calls over one folder *)

File2024 == S_accounts \o Y_2024 \o D_0731 \o S_csv

\* no folder, the two-day scenario, one day only, and one file of another year than
\* the default one
SessionFolders ==
    {NoDir, ScenarioFolder, OneFile(ScenarioA),
     [exists |-> TRUE, files |-> (File2024 :> SelfNamed(File2024))]}

InitSession ==
    /\ folder \in SessionFolders
    /\ case_dir = NoDir
    /\ call = NoCall
    /\ history = EmptyHistory

NextSession ==
    \/ NormalizeDateFormat
    \/ ExpandDateFormat
    \/ GetAvailableDates
    \/ LoadAccountsData
    \/ ComparePayerChanges
    \/ GetDetailedLinkedChanges
    \/ Deliver

SpecSession == InitSession /\ [][NextSession]_vars

----------------------------------------------------------------------------
(* Snapshots with repeated ids and with linked accounts that change payer *)

\* rows of a snapshot: one linked id under two payers and two names, and one payer id
\* under two names
MoveRowUniverse ==
    {Row(<<"a">>, L1, S_ENTERPRISE, S_LINKED_ACCOUNT, P1),
     Row(<<"b">>, L1, S_ENTERPRISE, S_LINKED_ACCOUNT, P2),
     Row(<<"p">>, P1, S_ENTERPRISE, S_PAYER_ACCOUNT, <<>>),
     Row(<<"q">>, P1, S_ENTERPRISE, S_PAYER_ACCOUNT, <<>>)}

MoveSnapshots == UNION {[1..n -> MoveRowUniverse] : n \in 0..MaxRecords}

MoveFolders ==
    {TwoFiles(a, b) : a \in MoveSnapshots, b \in MoveSnapshots} \cup {ScenarioFolder}

InitMoves ==
    /\ folder \in MoveFolders
    /\ case_dir = NoDir
    /\ call = NoCall
    /\ history = NoHistory

NextMoves ==
    \/ ComparePayerChanges
    \/ GetDetailedLinkedChanges
    \/ Deliver

SpecMoves == InitMoves /\ [][NextMoves]_vars

\* the last row, in file order, of the Enterprise rows of one account type and one id
\* in the file a token selects
LastRowOf(date, type, id) ==
    LET rows == folder.files[LocateFile(folder, date)]
        hits == {j \in DOMAIN rows :
                    /\ Upper(StripChars(RowGet(rows[j], K_SupportLevel), Quote)) = S_ENTERPRISE
                    /\ StripChars(RowGet(rows[j], K_AccountType), Quote) = type
                    /\ StripChars(RowGet(rows[j], K_AccountID), Quote) = id}
    IN  rows[CHOOSE j \in hits : \A k \in hits : k <= j]

PayerOf(date, id) ==
    StripChars(RowGet(LastRowOf(date, S_LINKED_ACCOUNT, id), K_PayerID), Quote)

\* the buckets of new and of removed linked accounts of either diff tool
NewBuckets ==
    IF call.op = "get_detailed_linked_changes" THEN call.result.new_by_payer
    ELSE [p \in DOMAIN call.result.linked_changes.payer_changes |->
             call.result.linked_changes.payer_changes[p].new]

RemovedBuckets ==
    IF call.op = "get_detailed_linked_changes" THEN call.result.removed_by_payer
    ELSE [p \in DOMAIN call.result.linked_changes.payer_changes |->
             call.result.linked_changes.payer_changes[p].removed]

BucketsHolding(buckets, id) ==
    {p \in DOMAIN buckets : \E e \in buckets[p] : e.account.account_id = id}

BucketSizes(buckets) ==
    SumOver(DOMAIN buckets, [p \in DOMAIN buckets |-> Cardinality(buckets[p])])

NewLinkedIds ==
    IdsOfType(call.date2, S_LINKED_ACCOUNT) \ IdsOfType(call.date1, S_LINKED_ACCOUNT)

RemovedLinkedIds ==
    IdsOfType(call.date1, S_LINKED_ACCOUNT) \ IdsOfType(call.date2, S_LINKED_ACCOUNT)

\* C21: in analyze_linked_account_changes and in get_detailed_linked_changes every
\* added linked account is in exactly one bucket, the one of its payer_id in the
\* snapshot of date2, every removed one is in exactly one bucket, the one of its
\* payer_id in the snapshot of date1, and the bucket sizes sum to the number of added
\* and of removed ids.
C21_EveryChangeInTheBucketOfItsPayer ==
    (PayerDiffDone \/ LinkedDiffDone) =>
        /\ \A id \in NewLinkedIds :
               BucketsHolding(NewBuckets, id) = {PayerOf(call.date2, id)}
        /\ \A id \in RemovedLinkedIds :
               BucketsHolding(RemovedBuckets, id) = {PayerOf(call.date1, id)}
        /\ BucketSizes(NewBuckets) = Cardinality(NewLinkedIds)
        /\ BucketSizes(RemovedBuckets) = Cardinality(RemovedLinkedIds)

\* from {P1:[], P2:[L1,L2]} to {P1:[L3], P3:[L4]}: two buckets of one new account, and
\* one bucket of two removed accounts
C21_Witness ==
    /\ PayerDiffDone
    /\ FromScenarioAToB
    /\ DOMAIN NewBuckets = {P1, P2, P3}
    /\ Cardinality(NewBuckets[P1]) = 1
    /\ Cardinality(NewBuckets[P3]) = 1
    /\ Cardinality(RemovedBuckets[P2]) = 2

\* the entries of all buckets
AllEntries(buckets) == UNION {buckets[p] : p \in DOMAIN buckets}

\* C23: when a snapshot holds several records of one account type with one account
\* id, the diff treats the id as one key, and the record it uses for the key, in the
\* details of a new or removed payer and in the entry of a new or removed linked
\* account, is the last one in file order.
C23_RepeatedIdIsOneKeyAndTheLastRecordWins ==
    /\ PayerDiffDone =>
           /\ \A id \in call.result.new_payers :
                  call.result.new_details[id].payer =
                      AccountRecord(LastRowOf(call.date2, S_PAYER_ACCOUNT, id))
           /\ \A id \in call.result.removed_payers :
                  call.result.removed_details[id].payer =
                      AccountRecord(LastRowOf(call.date1, S_PAYER_ACCOUNT, id))
    /\ (PayerDiffDone \/ LinkedDiffDone) =>
           /\ \A id \in NewLinkedIds :
                  {e.account : e \in {x \in AllEntries(NewBuckets) : x.account.account_id = id}}
                      = {AccountRecord(LastRowOf(call.date2, S_LINKED_ACCOUNT, id))}
           /\ \A id \in RemovedLinkedIds :
                  {e.account :
                      e \in {x \in AllEntries(RemovedBuckets) : x.account.account_id = id}}
                      = {AccountRecord(LastRowOf(call.date1, S_LINKED_ACCOUNT, id))}
           /\ Cardinality(AllEntries(NewBuckets)) = Cardinality(NewLinkedIds)
           /\ Cardinality(AllEntries(RemovedBuckets)) = Cardinality(RemovedLinkedIds)
    /\ LinkedDiffDone =>
           /\ call.result.total_linked1 =
                  Cardinality(IdsOfType(call.date1, S_LINKED_ACCOUNT))
           /\ call.result.total_linked2 =
                  Cardinality(IdsOfType(call.date2, S_LINKED_ACCOUNT))

\* the second snapshot holds the payer P1 twice, named p and then q, and the linked
\* account L1 twice, under P1 and then under P2; the first snapshot is empty
C23_Witness ==
    /\ PayerDiffDone
    /\ call.date1 = D_0731
    /\ call.date2 = D_0801
    /\ folder.files[File0731] = <<>>
    /\ call.result.new_payers = {P1}
    /\ call.result.total_payers2 = 2
    /\ call.result.new_details[P1].payer.account_name = <<"q">>
    /\ call.result.new_details[P1].payer # AccountRecord(folder.files[File0801][1])

\* the linked account L1 is written twice in the second snapshot, under two payers
C23_RepeatedLinkedId ==
    /\ LinkedDiffDone
    /\ call.date1 = D_0731
    /\ call.date2 = D_0801
    /\ folder.files[File0731] = <<>>
    /\ Len(folder.files[File0801]) = 2
    /\ call.result.new_linked_ids = {L1}
    /\ DOMAIN call.result.new_by_payer = {P2}

\* C28: the two net-change figures of get_detailed_linked_changes agree: the number
\* of new ids minus the number of removed ids is the number of distinct linked ids
\* of date2 minus the number of distinct linked ids of date1, also when a snapshot
\* holds an id more than once.
C28_TheTwoNetChangesAgree ==
    LinkedDiffDone =>
        /\ call.result.net_change = call.result.total_net_change
        /\ call.result.net_change =
               Cardinality(call.result.new_linked_ids)
                   - Cardinality(call.result.removed_linked_ids)
        /\ call.result.total_net_change =
               Cardinality(IdsOfType(call.date2, S_LINKED_ACCOUNT))
                   - Cardinality(IdsOfType(call.date1, S_LINKED_ACCOUNT))

\* the first snapshot holds the linked account L1 twice and the second holds none
C28_Witness ==
    /\ LinkedDiffDone
    /\ call.date1 = D_0731
    /\ call.date2 = D_0801
    /\ Len(folder.files[File0731]) = 2
    /\ IdsOfType(D_0731, S_LINKED_ACCOUNT) = {L1}
    /\ IdsOfType(D_0731, S_PAYER_ACCOUNT) = {}
    /\ IdsOfType(D_0801, S_LINKED_ACCOUNT) = {}
    /\ call.result.net_change = 0 - 1

\* the linked ids that are in both snapshots of a diff
StayingLinkedIds ==
    IdsOfType(call.date1, S_LINKED_ACCOUNT) \cap IdsOfType(call.date2, S_LINKED_ACCOUNT)

\* C29: a linked id that is an Enterprise LINKED record in both snapshots is reported
\* neither as new nor as removed, also when its payer_id differs between the two: a
\* move from one payer to another gives no entry in any bucket.
C29_AMoveBetweenPayersIsNotReported ==
    /\ LinkedDiffDone =>
           \A id \in StayingLinkedIds :
               /\ id \notin call.result.new_linked_ids
               /\ id \notin call.result.removed_linked_ids
    /\ (PayerDiffDone \/ LinkedDiffDone) =>
           \A id \in StayingLinkedIds :
               /\ BucketsHolding(NewBuckets, id) = {}
               /\ BucketsHolding(RemovedBuckets, id) = {}

\* L1 is under P1 on the first day and under P2 on the second
C29_Witness ==
    /\ LinkedDiffDone
    /\ call.date1 = D_0731
    /\ call.date2 = D_0801
    /\ L1 \in StayingLinkedIds
    /\ PayerOf(D_0731, L1) = P1
    /\ PayerOf(D_0801, L1) = P2
    /\ call.result.affected_payers = {}
    /\ call.result.net_change = 0

----------------------------------------------------------------------------
(* Linked records without a payer, and ranked payers *)

Aggregated ==
    call.op \in {"analyze_enterprise_accounts", "analyze_all_accounts",
                 "analyze_payer_distribution"}

\* the positions, in the list given to an aggregate, of the records it takes for
\* linked accounts: the LINKED records, and for analyze_enterprise_accounts the ones
\* of the Enterprise level only
LinkedPositions ==
    {i \in DOMAIN call.accounts :
        /\ call.accounts[i].account_type = S_LINKED_ACCOUNT
        /\ call.op = "analyze_enterprise_accounts" =>
               Upper(call.accounts[i].support_level) = S_ENTERPRISE}

PayerIdsGiven ==
    {call.accounts[i].account_id :
        i \in {j \in DOMAIN call.accounts : call.accounts[j].account_type = S_PAYER_ACCOUNT}}

\* the payer_to_linked an aggregate has built
GroupsBuilt ==
    IF call.op = "analyze_payer_distribution" THEN payer_distribution_groups(call.accounts)
    ELSE call.result.payer_to_linked

\* C22: in analyze_enterprise_accounts, analyze_all_accounts and
\* analyze_payer_distribution a LINKED record whose payer_id is the id of no PAYER
\* record of the list is not dropped: it is counted in total_linked and is in the
\* list payer_to_linked holds under its payer_id, so that the sizes of the lists of
\* payer_to_linked sum to total_linked.
C22_LinkedRecordWithoutPayerIsKept ==
    Aggregated =>
        /\ call.result.total_linked = Cardinality(LinkedPositions)
        /\ \A i \in LinkedPositions :
               LET a == call.accounts[i]
               IN  /\ a.payer_id \in DOMAIN GroupsBuilt
                   /\ Cardinality({k \in DOMAIN GroupsBuilt[a.payer_id] :
                                      GroupsBuilt[a.payer_id][k] = a})
                          = Cardinality({j \in LinkedPositions : call.accounts[j] = a})
        /\ SumOver(DOMAIN GroupsBuilt, [p \in DOMAIN GroupsBuilt |-> Len(GroupsBuilt[p])])
               = call.result.total_linked

\* a payer, a linked account under it, and a linked account under a payer_id that no
\* payer of the list has
C22_Witness ==
    /\ call.op = "analyze_enterprise_accounts"
    /\ PayerIdsGiven = {P1}
    /\ {call.accounts[i].payer_id : i \in LinkedPositions} = {P1, P3}
    /\ call.result.total_linked = 2
    /\ Len(call.result.payer_to_linked[P3]) = 1

\* rows of a snapshot of two payers, a linked account under each, and a linked
\* account under a payer_id that no payer has
GroupRows ==
    {PayerRow(P1), PayerRow(P2), LinkedRow(L1, P1), LinkedRow(L2, P2), LinkedRow(L3, P3)}

GroupFolders ==
    {OneFile(a) : a \in UNION {[1..n -> GroupRows] : n \in 0..MaxRecords}}
        \cup {ScenarioFolder}

InitGroups ==
    /\ folder \in GroupFolders
    /\ case_dir = NoDir
    /\ call = NoCall
    /\ history = NoHistory

NextGroups ==
    \/ AnalyzeSingleDateAccounts
    \/ AnalyzePayerDistribution
    \/ Deliver

SpecGroups == InitGroups /\ [][NextGroups]_vars

RankedPayers ==
    \/ call.op = "analyze_payer_distribution"
    \/ call.op = "analyze_single_date_accounts" /\ call.result.status = "ok"

\* the ranking a call has produced
Ranking ==
    IF call.op = "analyze_payer_distribution" THEN call.result.payer_analysis
    ELSE call.result.payer_with_counts

\* the records the call ranks over: the list given to analyze_payer_distribution, and
\* the Enterprise rows of the file read by analyze_single_date_accounts
RecordsRanked ==
    IF call.op = "analyze_payer_distribution" THEN call.accounts
    ELSE LET rows == folder.files[LocateFile(folder, call.date)]
             records == [i \in DOMAIN rows |-> AccountRecord(rows[i])]
         IN  SelectSeq(records, LAMBDA a : Upper(a.support_level) = S_ENTERPRISE)

\* the payers in the order they are met
PayersMet == SelectSeq(RecordsRanked, LAMBDA a : a.account_type = S_PAYER_ACCOUNT)

LinkedUnder(payer) ==
    Cardinality({i \in DOMAIN RecordsRanked :
                    /\ RecordsRanked[i].account_type = S_LINKED_ACCOUNT
                    /\ RecordsRanked[i].payer_id = payer.account_id})

\* the one-to-one maps of positions of the ranking to positions of the payers met
Placements ==
    {f \in [DOMAIN Ranking -> DOMAIN PayersMet] :
        \A k, l \in DOMAIN Ranking : k # l => f[k] # f[l]}

\* C24: the payer_analysis of analyze_payer_distribution and the payer ranking of
\* analyze_single_date_accounts list every payer once, with the number of its linked
\* accounts, by that number descending: no payer with a smaller count precedes one
\* with a larger count, and of two payers with equal counts the one met earlier in
\* the snapshot is listed first.
C24_RankedByCountTiesInInputOrder ==
    RankedPayers =>
        /\ Len(Ranking) = Len(PayersMet)
        /\ \E f \in Placements :
               /\ \A k \in DOMAIN Ranking :
                      /\ Ranking[k].payer = PayersMet[f[k]]
                      /\ Ranking[k].linked_count = LinkedUnder(PayersMet[f[k]])
               /\ \A k, l \in DOMAIN Ranking :
                      k < l =>
                          \/ Ranking[k].linked_count > Ranking[l].linked_count
                          \/ /\ Ranking[k].linked_count = Ranking[l].linked_count
                             /\ f[k] < f[l]

\* the payer met second has a linked account and the payer met first has none, so
\* the ranking is not the input order
C24_Witness ==
    /\ call.op = "analyze_payer_distribution"
    /\ Len(PayersMet) = 2
    /\ PayersMet[1].account_id = P1
    /\ PayersMet[2].account_id = P2
    /\ Ranking[1].payer.account_id = P2
    /\ Ranking[1].linked_count = 1
    /\ Ranking[2].linked_count = 0

\* two payers with one linked account each, ranked by analyze_single_date_accounts
C24_TieInTheReportOfOneDay ==
    /\ call.op = "analyze_single_date_accounts"
    /\ call.result.status = "ok"
    /\ folder = ScenarioFolder
    /\ call.date = D_0801
    /\ Len(Ranking) = 2
    /\ Ranking[1].payer.account_id = P1
    /\ Ranking[2].payer.account_id = P3
    /\ Ranking[1].linked_count = 1
    /\ Ranking[2].linked_count = 1

----------------------------------------------------------------------------
(* Building a record from a row *)

MaxQuotes == 2       \* quote characters at one end of a raw field

S_quote == <<"\"">>

RECURSIVE Quotes(_)
Quotes(k) == IF k = 0 THEN <<>> ELSE S_quote \o Quotes(k - 1)

\* raw field values: a text, with or without a quote inside, between k quote
\* characters at each end, and two values quoted at one end only
RawValues ==
    {Quotes(k) \o body \o Quotes(k) :
        k \in 0..MaxQuotes, body \in {<<"x">>, <<"x", "y">>, <<"a", "\"", "b">>}}
        \cup {S_quote \o <<"x">>, <<"x">> \o S_quote}

RawRows ==
    {Row(name, id, S_ENTERPRISE, S_PAYER_ACCOUNT, <<>>) :
        name \in RawValues, id \in RawValues}

InitRecord ==
    /\ folder = NoDir
    /\ case_dir = NoDir
    /\ call = NoCall
    /\ history = NoHistory

BuildAccountRecord ==
    \E row \in RawRows :
        /\ Idle
        /\ call' = [op |-> "AccountRecord", row |-> row, result |-> AccountRecord(row)]
        /\ UNCHANGED <<folder, case_dir, history>>

NextRecord ==
    \/ BuildAccountRecord
    \/ Deliver

SpecRecord == InitRecord /\ [][NextRecord]_vars

\* the number of quote characters a value starts with, and ends with
RECURSIVE LeadingQuotes(_)
LeadingQuotes(s) ==
    IF s = <<>> \/ Head(s) \notin Quote THEN 0 ELSE 1 + LeadingQuotes(Tail(s))

RECURSIVE TrailingQuotes(_)
TrailingQuotes(s) ==
    IF s = <<>> \/ s[Len(s)] \notin Quote THEN 0
    ELSE 1 + TrailingQuotes(SubSeq(s, 1, Len(s) - 1))

\* a raw value and the field built from it
FieldsBuilt ==
    {<<RowGet(call.row, K_AccountName), call.result.account_name>>,
     <<RowGet(call.row, K_AccountID), call.result.account_id>>,
     <<RowGet(call.row, K_PayerID), call.result.payer_id>>}

\* C25 (as claimed): building a record strips exactly one layer of surrounding quote
\* characters from every field: a raw value with k >= 1 quote characters at each end
\* gives a value that still has k - 1 quote characters at each end, and a raw value
\* without surrounding quotes is unchanged.
C25_OneLayerOfQuotesIsStripped ==
    call.op = "AccountRecord" =>
        \A field \in FieldsBuilt :
            LET raw == field[1]
                built == field[2]
                k == LeadingQuotes(raw)
            IN  /\ (k >= 1 /\ TrailingQuotes(raw) = k /\ Len(raw) > 2 * k) =>
                       /\ built = SubSeq(raw, 2, Len(raw) - 1)
                       /\ LeadingQuotes(built) = k - 1
                       /\ TrailingQuotes(built) = k - 1
                /\ (k = 0 /\ TrailingQuotes(raw) = 0) => built = raw

\* what the constructor does: no quote character is left at either end
C25_EveryLayerOfQuotesIsStripped ==
    call.op = "AccountRecord" =>
        \A field \in FieldsBuilt :
            /\ LeadingQuotes(field[2]) = 0
            /\ TrailingQuotes(field[2]) = 0
            /\ field[2] = SubSeq(field[1], LeadingQuotes(field[1]) + 1,
                                 Len(field[1]) - TrailingQuotes(field[1]))

----------------------------------------------------------------------------
(* Totals of the ticket analysis by payer *)

\* the loaded cases whose trimmed Account PayerId is not empty
CasesWithPayer == {i \in DOMAIN call.cases : Strip(RowGet(call.cases[i], K_PayerId)) # <<>>}

\* C30: in analyze_cases_by_payer overview.total_cases is the sum of the total_cases
\* of the payers, which is the number of loaded cases whose trimmed Account PayerId is
\* not empty; a case with an empty payer id is counted for no payer; and the four
\* support-profile counts sum to total_payers.
C30_TotalsOfTheAnalysisByPayer ==
    CasesAnalyzed =>
        LET r == call.result
            payers == DOMAIN r.detailed_analysis
        IN  /\ r.overview.total_cases =
                   SumOver(payers, [p \in payers |-> r.detailed_analysis[p].total_cases])
            /\ r.overview.total_cases = Cardinality(CasesWithPayer)
            /\ <<>> \notin payers
            /\ \A p \in payers :
                   r.detailed_analysis[p].total_cases = Cardinality(CasesOf(p))
            /\ r.overview.total_payers = Cardinality(payers)
            /\ r.payer_profiles.tech_oriented + r.payer_profiles.tech_primary
                   + r.payer_profiles.mixed + r.payer_profiles.non_tech
                   = r.overview.total_payers

\* three loaded cases: one of each of two payers, and one without payer id
C30_Witness ==
    /\ CasesAnalyzed
    /\ Len(call.cases) = 3
    /\ Cardinality(CasesWithPayer) = 2
    /\ call.result.overview.total_cases = 2
    /\ call.result.overview.total_payers = 2
    /\ call.result.payer_profiles.tech_oriented = 1
    /\ call.result.payer_profiles.non_tech = 1

----------------------------------------------------------------------------
(* Both servers: any sequence of their calls over the two data directories *)

ServerFolders == {NoDir, ScenarioFolder}

ServerCaseDirs == {NoDir, [exists |-> TRUE, files |-> (File202507 :> ScenarioCases)]}

InitServers ==
    /\ folder \in ServerFolders
    /\ case_dir \in ServerCaseDirs
    /\ call = NoCall
    /\ history = NoHistory

NextServers ==
    \/ NormalizeDateFormat
    \/ ExpandDateFormat
    \/ GetAvailableDates
    \/ LoadAccountsData
    \/ ComparePayerChanges
    \/ GetDetailedLinkedChanges
    \/ AnalyzeSingleDateAccounts
    \/ AnalyzePartnerOverallBusiness
    \/ FindAccountFirstAppearance
    \/ FindAccountLastAppearance
    \/ AnalyzeEnterpriseAccounts
    \/ AnalyzePayerDistribution
    \/ AnalyzeAllAccounts
    \/ CalculateGiniCoefficient
    \/ AnalyzeCasesByPayer
    \/ AnalyzeCasesByCategory
    \/ GetPayerAccountsBeautifulTable
    \/ AnalyzePayerAccountsTable
    \/ Deliver

SpecServers == InitServers /\ [][NextServers]_vars

====
